---- MODULE Spec2Model ----
(***************************************************************************)
(* A model of the amafi-industry-data service: the Bull-backed JobQueue,   *)
(* the processor strategies it dispatches to, the persistence helper       *)
(* SupabaseService and the truncation-tolerant response parser of          *)
(* PerplexityClient.                                                       *)
(*                                                                         *)
(* Three specifications share the module:                                  *)
(*   Spec / FairSpec  the job queue, its worker and the pushed events      *)
(*   StoreSpec        concurrent and repeated calls of the save helpers    *)
(*   ParserSpec       parseResponseWithTruncationHandling on bounded text  *)
(***************************************************************************)
EXTENDS Integers, Sequences, FiniteSets, TLC

(***************************************************************************)
(* Bounds of the model.                                                    *)
(***************************************************************************)
MaxJobs == 1

\* How many attempts in all the queue timeout may abandon.
MaxTimeouts == 1

\* Save calls made in the persistence specification, the owner keys they are
\* made for and the largest competitor batch.
MaxCalls == 2

MaxOwners == 1

MaxProfiles == 1

MaxBatch == 2

\* Top-level fields of a provider document in the parser specification.
MaxFields == 2

MaxSockets == 2

MaxRooms == 2

MaxOps == 5

\* Requests the submission route handles.
MaxRequests == 2

\* Top-level keys of the provider document a strategy is given.
MaxKeys == 3

\* Citations the provider returns with one answer.
MaxCitations == 1

\* Calls of cleanOldJobs.
MaxCleans == 1

JobIds == 1..MaxJobs

(***************************************************************************)
(* JobConfig: the closed job-type enumeration and its per-type descriptor. *)
(***************************************************************************)
JobType == {"industry", "competitors", "supplychain", "endmarkets", "regulations"}

JOB_TYPE_CONFIGS ==
  [t \in JobType |->
     [timeout |-> [regular |-> 300000, deepResearch |-> 600000]]]

getJobConfig(type) == JOB_TYPE_CONFIGS[type]

\* The payloads submissions are drawn from in the queue specification.
SubmittedTypes == {"industry"}

SubmittedFlags == {FALSE}

(***************************************************************************)
(* JobProcessorFactory: the registry filled by the static initialiser.     *)
(***************************************************************************)
processors == JobType

hasProcessor(type) == type \in processors

(***************************************************************************)
(* Options addJob passes to queue.add.                                     *)
(***************************************************************************)
attempts_two == 3 - 1

attempts == 3

\* A queue that keeps its completed jobs.
removeOnComplete_keeps == FALSE

removeOnComplete == TRUE

removeOnFail == FALSE

\* index.ts attaches the notification service right after constructing it.
webSocketService == TRUE

(***************************************************************************)
(* Error messages a failed attempt can carry.                              *)
(***************************************************************************)
TimeoutMsg == "Promise timed out"

QueryErrors == {"Request failed"}

SaveErrors == {"save error"}

ParseFailedMsg == "Failed to parse data from Perplexity"

NotAFunctionMsg == "supabaseService.saveIndustryMARegulations is not a function"

NoProcessorMsg == "No processor registered for job type"

(***************************************************************************)
(* State of the queue specification.                                       *)
(*   jobState      Bull's state of the job ("none": never submitted)       *)
(*   stored        the job is held by the queue store                      *)
(*   jobData       the payload given to addJob, with the timeout option    *)
(*   attemptsMade  failed attempts so far                                  *)
(*   jobProgress   the value last written by job.progress(p)               *)
(*   returnvalue   what the process handler returned                      *)
(*   failedReason  message of the error of the last failed attempt         *)
(*   running       processor invocations in flight: invocation number and  *)
(*                 the external call each one is suspended on              *)
(*   currentInv    the invocation the worker is awaiting (0: none)         *)
(*   invoked       how many times processor.process was called             *)
(*   attemptLog    how each attempt ended, as the queue saw it             *)
(*   events        the updates emitted to room job:<jobId>, in order       *)
(*   timeouts      attempts abandoned by the queue timeout so far          *)
(***************************************************************************)
VARIABLES jobState, stored, jobData, attemptsMade, jobProgress, returnvalue,
          failedReason, running, currentInv, invoked, attemptLog, events,
          timeouts

queueVars == <<jobState, stored, jobData, attemptsMade, jobProgress, returnvalue,
               failedReason, running, currentInv, invoked, attemptLog, events,
               timeouts>>

(***************************************************************************)
(* State of the persistence specification.                                 *)
(*   rows        the records each table holds                              *)
(*   calls       each save call: the helper called, its owner key, its     *)
(*               batch size and the request it is suspended on             *)
(*   overlapped  some call started while another was still in progress     *)
(*   deleteFailed the store reported an error on some delete request       *)
(***************************************************************************)
VARIABLES rows, calls, overlapped, deleteFailed

storeVars == <<rows, calls, overlapped, deleteFailed>>

(***************************************************************************)
(* State of the parser specification.                                      *)
(*   fields    the top-level fields of the document the provider meant to  *)
(*             send, each a name and the text of its value                 *)
(*   cut       how many characters of the document were emitted            *)
(*   wrapper   what surrounds the document: nothing, a code fence or a     *)
(*             leading think block                                         *)
(*   text      searchResult, the text handed to the parser                 *)
(*   parsed    what parseResponseWithTruncationHandling returned           *)
(*   parserPc  "idle", "input" (text received) or "done" (parsed)          *)
(***************************************************************************)
VARIABLES fields, cut, wrapper, text, data, parsed, parserPc

parserVars == <<fields, cut, wrapper, text, data, parsed, parserPc>>

(***************************************************************************)
(* State of the notification channel (WebSocketService over socket.io).    *)
(*   connectedClients  the sockets of the connectedClients map             *)
(*   socketRooms       for each socket, the keys of the rooms it joined    *)
(*   inbox             for each socket, the updates emitted to it, in the  *)
(*                     order they were written to its connection           *)
(*   wsLog             history: every handler run and every emission, in   *)
(*                     order                                               *)
(*   pongs             for each socket, how many pong messages were        *)
(*                     emitted to it                                       *)
(***************************************************************************)
VARIABLES connectedClients, socketRooms, inbox, wsLog, pongs

wsVars == <<connectedClients, socketRooms, inbox, wsLog, pongs>>

(***************************************************************************)
(* State of the submission route.                                          *)
(*   request       the last request handled by POST /populate-:type-async  *)
(*   response      the response it was given                               *)
(*   addJobCalled  whether the handler called jobQueue.addJob for it       *)
(*   submitted     the job queue.add created for it (0: none)              *)
(*   handled       how many requests the route has received                *)
(***************************************************************************)
VARIABLES request, response, addJobCalled, submitted, handled

routeVars == <<request, response, addJobCalled, submitted, handled>>

(***************************************************************************)
(* State of a getJobStatus call.                                           *)
(*   statusPc     "idle", "found" (the job was found, its state not yet    *)
(*                read) or "returned"                                      *)
(*   statusJob    the job the call found (0: none)                         *)
(*   statusValue  the status the call returned ("not-found" for null)      *)
(***************************************************************************)
VARIABLES statusPc, statusJob, statusValue

statusVars == <<statusPc, statusJob, statusValue>>

(***************************************************************************)
(* State of one invocation of a strategy's process.                        *)
(*   sType      the job type of the strategy ("none": no invocation)       *)
(*   sPc        "idle", "start", "query" and "save" (suspended on the      *)
(*              provider and on a save call), "resolved" or "rejected"     *)
(*   reported   the percentages passed to the progress callback, in order  *)
(*   sParsed    what the parser returned to the strategy                   *)
(*   persisted  the save calls made on supabaseService, each with the      *)
(*              record handed over                                         *)
(*   sError     the message of the error the invocation rejected with      *)
(*   citations  searchResponse.citations, the list the provider returns    *)
(***************************************************************************)
VARIABLES sType, sPc, reported, sParsed, persisted, sError, citations

strategyVars == <<sType, sPc, reported, sParsed, persisted, sError, citations>>

(***************************************************************************)
(* The clean-up of the queue.                                              *)
(*   old     per job: it has been in the store for more than the grace     *)
(*           period of cleanOldJobs, one hour                              *)
(*   cleans  the calls of cleanOldJobs so far                              *)
(***************************************************************************)
VARIABLES old, cleans

cleanVars == <<old, cleans>>

vars == <<queueVars, storeVars, parserVars, wsVars, routeVars, statusVars, strategyVars,
          cleanVars>>

nonQueueVars == <<storeVars, parserVars, wsVars, routeVars, statusVars, strategyVars,
  cleanVars>>

nonStoreVars == <<queueVars, parserVars, wsVars, routeVars, statusVars, strategyVars,
  cleanVars>>

nonParserVars == <<queueVars, storeVars, wsVars, routeVars, statusVars, strategyVars,
  cleanVars>>

nonWsVars == <<queueVars, storeVars, parserVars, routeVars, statusVars, strategyVars,
  cleanVars>>

nonRouteVars == <<storeVars, parserVars, wsVars, statusVars, strategyVars,
  cleanVars>>

nonStatusVars == <<queueVars, storeVars, parserVars, wsVars, routeVars, strategyVars,
  cleanVars>>

nonStrategyVars == <<queueVars, storeVars, parserVars, wsVars, routeVars, statusVars,
  cleanVars>>

nonCleanVars == <<storeVars, parserVars, wsVars, routeVars, statusVars, strategyVars>>

NoData == [type |-> "none", useDeepResearch |-> FALSE, timeout |-> 0]

NoResult == [success |-> FALSE, data |-> 0]

CleanIdle ==
  /\ old = [j \in JobIds |-> FALSE]
  /\ cleans = 0

QueueInit ==
  /\ jobState = [j \in JobIds |-> "none"]
  /\ stored = [j \in JobIds |-> FALSE]
  /\ jobData = [j \in JobIds |-> NoData]
  /\ attemptsMade = [j \in JobIds |-> 0]
  /\ jobProgress = [j \in JobIds |-> 0]
  /\ returnvalue = [j \in JobIds |-> NoResult]
  /\ failedReason = [j \in JobIds |-> ""]
  /\ running = [j \in JobIds |-> {}]
  /\ currentInv = [j \in JobIds |-> 0]
  /\ invoked = [j \in JobIds |-> 0]
  /\ attemptLog = [j \in JobIds |-> <<>>]
  /\ events = [j \in JobIds |-> <<>>]
  /\ timeouts = 0

Tables ==
  {"industry_overview", "industry_competitors", "industry_supplychain",
   "industry_endmarkets", "industry_regulations"}

CallIds == 1..MaxCalls

Entities == 1..MaxOwners

Profiles == 1..MaxProfiles

NoCall == [op |-> "none", entity_id |-> 0, profile_id |-> 0, size |-> 0, pc |-> "idle"]

StoreInit ==
  /\ rows = [t \in Tables |-> {}]
  /\ calls = [c \in CallIds |-> NoCall]
  /\ overlapped = FALSE
  /\ deleteFailed = FALSE

\* The value the parser returns instead of a mapping.
Null == [null |-> TRUE, fields |-> <<>>]

\* searchResponse.data before the query has returned.
NotQueried == [kind |-> "none", text |-> <<>>, members |-> <<>>]

ParserIdle ==
  /\ fields = <<>>
  /\ cut = 0
  /\ wrapper = "none"
  /\ text = <<>>
  /\ data = NotQueried
  /\ parsed = Null
  /\ parserPc = "idle"

Sockets == 1..MaxSockets

RoomIds == 1..MaxRooms

WsInit ==
  /\ connectedClients = {}
  /\ socketRooms = [s \in Sockets |-> {}]
  /\ inbox = [s \in Sockets |-> <<>>]
  /\ wsLog = <<>>
  /\ pongs = [s \in Sockets |-> 0]

NoRequest ==
  [type |-> "none", companyName |-> "undefined", companyDescription |-> "undefined",
   entityId |-> "undefined", profileId |-> "undefined", useDeepResearch |-> FALSE]

NoResponse == [status |-> 0, error |-> FALSE, message |-> ""]

RouteInit ==
  /\ request = NoRequest
  /\ response = NoResponse
  /\ addJobCalled = FALSE
  /\ submitted = 0
  /\ handled = 0

StatusInit ==
  /\ statusPc = "idle"
  /\ statusJob = 0
  /\ statusValue = ""

StrategyIdle ==
  /\ sType = "none"
  /\ sPc = "idle"
  /\ reported = <<>>
  /\ sParsed = Null
  /\ persisted = <<>>
  /\ sError = ""
  /\ citations = <<>>

Init ==
  /\ QueueInit /\ StoreInit /\ ParserIdle /\ WsInit /\ RouteInit /\ StatusInit
  /\ CleanIdle
  /\ StrategyIdle

(***************************************************************************)
(* WebSocketService.sendJob*: the update emitted to the room of the job.   *)
(* "by" is not part of the payload: it records the invocation that caused  *)
(* the emission (0 for the queue's own terminal events).                   *)
(***************************************************************************)
\* The message IndustryProcessor reports with each checkpoint.
CheckpointMessage(progress) ==
  CASE progress = 10 -> "Starting industry analysis..."
    [] progress = 20 -> "Querying market intelligence..."
    [] progress = 30 -> "Fetching industry data from Perplexity..."
    [] progress = 50 -> "Processing industry intelligence..."
    [] progress = 70 -> "Structuring industry data..."
    [] progress = 85 -> "Saving industry data..."
    [] progress = 90 -> "Finalizing industry overview..."
    [] OTHER -> ""

\* message || 'Processing...'
messageOrDefault(message) == IF message = "" THEN "Processing..." ELSE message

sendJobProgress_defaultMessage(progress, n) ==
  [kind |-> "job-progress", status |-> "processing", progress |-> progress,
   message |-> "Processing...", result |-> 0, error |-> "", by |-> n]

sendJobProgress(progress, n) ==
  [kind |-> "job-progress", status |-> "processing", progress |-> progress,
   message |-> messageOrDefault(CheckpointMessage(progress)),
   result |-> 0, error |-> "", by |-> n]

sendJobComplete(result) ==
  [kind |-> "job-complete", status |-> "completed", progress |-> 100,
   message |-> "generation completed", result |-> result.data, error |-> "", by |-> 0]

sendJobError(msg) ==
  [kind |-> "job-error", status |-> "failed", progress |-> 0,
   message |-> "Generation failed", result |-> 0, error |-> msg, by |-> 0]

\* progressCallback called once per checkpoint of ps, in order.
progressCallback(ev, n, ps) ==
  IF webSocketService
    THEN ev \o [i \in 1..Len(ps) |-> sendJobProgress(ps[i], n)]
    ELSE ev

\* job.progress(p): the stored record keeps the last reported value.
jobProgressAfter(j, ps) ==
  IF stored[j] THEN [jobProgress EXCEPT ![j] = ps[Len(ps)]] ELSE jobProgress

(***************************************************************************)
(* The checkpoints every strategy reports, split at its suspension points. *)
(***************************************************************************)
CheckpointsBeforeQuery == <<10, 20, 30>>

CheckpointAfterQuery == <<50>>

CheckpointsBeforeSave == <<50, 70, 85>>

\* A last checkpoint below the one reported before the save.
CheckpointAfterSave_eighty == <<80>>

CheckpointAfterSave == <<90>>

\* What strategy invocation n resolves with.
ProcessorResult(n) == n

(***************************************************************************)
(* Bull: how the worker finishes the attempt it is awaiting.               *)
(***************************************************************************)
moveToCompleted(j, result, ev) ==
  /\ jobState' = [jobState EXCEPT ![j] = "completed"]
  /\ stored' = [stored EXCEPT ![j] = ~removeOnComplete]
  /\ returnvalue' = [returnvalue EXCEPT ![j] = [success |-> TRUE, data |-> result]]
  /\ currentInv' = [currentInv EXCEPT ![j] = 0]
  /\ attemptLog' = [attemptLog EXCEPT ![j] =
                      Append(@, [kind |-> "resolved", msg |-> "", result |-> result])]
  /\ events' = [events EXCEPT ![j] =
                  IF webSocketService
                    THEN Append(ev, sendJobComplete([success |-> TRUE, data |-> result]))
                    ELSE ev]
  /\ UNCHANGED <<attemptsMade, failedReason>>

\* With this failure counted, does the attempts option leave a retry?
retryable_offByOne(j) == attemptsMade[j] + 1 <= attempts

retryable(j) == attemptsMade[j] + 1 < attempts

moveToFailed(j, kind, msg, ev) ==
  /\ attemptsMade' = [attemptsMade EXCEPT ![j] = @ + 1]
  /\ failedReason' = [failedReason EXCEPT ![j] = msg]
  /\ jobState' = [jobState EXCEPT ![j] = IF retryable(j) THEN "delayed" ELSE "failed"]
  /\ stored' = [stored EXCEPT ![j] = IF retryable(j) THEN TRUE ELSE ~removeOnFail]
  /\ currentInv' = [currentInv EXCEPT ![j] = 0]
  /\ attemptLog' = [attemptLog EXCEPT ![j] =
                      Append(@, [kind |-> kind, msg |-> msg, result |-> 0])]
  /\ events' = [events EXCEPT ![j] =
                  IF webSocketService THEN Append(ev, sendJobError(msg)) ELSE ev]
  /\ UNCHANGED returnvalue

\* The worker acting on the settlement of any invocation, abandoned or not.
Settle_actsOnAbandoned(j, n, kind, msg, result, ev) ==
  IF kind = "resolved"
    THEN moveToCompleted(j, result, ev)
    ELSE moveToFailed(j, kind, msg, ev)

\* Invocation n of job j settles. The worker acts on it only while it is the
\* invocation it awaits; a settlement of an abandoned invocation is dropped.
Settle(j, n, kind, msg, result, ev) ==
  IF currentInv[j] = n
    THEN IF kind = "resolved"
           THEN moveToCompleted(j, result, ev)
           ELSE moveToFailed(j, kind, msg, ev)
    ELSE /\ events' = [events EXCEPT ![j] = ev]
         /\ UNCHANGED <<jobState, stored, attemptsMade, returnvalue, failedReason,
                        currentInv, attemptLog>>

(***************************************************************************)
(* JobQueue.addJob                                                         *)
(***************************************************************************)
\* The tiers selected the wrong way round.
timeoutOf_swapped(type, useDeepResearch) ==
  IF useDeepResearch
    THEN getJobConfig(type).timeout.regular
    ELSE getJobConfig(type).timeout.deepResearch

\* data.useDeepResearch ? config.timeout.deepResearch : config.timeout.regular
timeoutOf(type, useDeepResearch) ==
  IF useDeepResearch
    THEN getJobConfig(type).timeout.deepResearch
    ELSE getJobConfig(type).timeout.regular

\* this.queue.add(data, options): the job is stored, waiting.
queueAdd(j, type, useDeepResearch) ==
  /\ jobState[j] = "none"
  /\ \A i \in JobIds : i < j => jobState[i] # "none"
  /\ jobState' = [jobState EXCEPT ![j] = "waiting"]
  /\ stored' = [stored EXCEPT ![j] = TRUE]
  /\ jobData' = [jobData EXCEPT ![j] =
                   [type |-> type, useDeepResearch |-> useDeepResearch,
                    timeout |-> timeoutOf(type, useDeepResearch)]]
  /\ UNCHANGED <<attemptsMade, jobProgress, returnvalue, failedReason, running,
                 currentInv, invoked, attemptLog, events, timeouts>>

addJob(j, type, useDeepResearch) ==
  /\ UNCHANGED nonQueueVars
  /\ queueAdd(j, type, useDeepResearch)

(***************************************************************************)
(* queue.process handler: the worker (concurrency 1) claims a waiting job  *)
(* and calls processor.process, which runs to its first suspension point.  *)
(***************************************************************************)
processJob(j) ==
  /\ UNCHANGED nonQueueVars
  /\ jobState[j] = "waiting"
  /\ \A i \in JobIds : jobState[i] # "active"
  /\ invoked' = [invoked EXCEPT ![j] = @ + 1]
  /\ IF hasProcessor(jobData[j].type)
       THEN /\ jobState' = [jobState EXCEPT ![j] = "active"]
            /\ currentInv' = [currentInv EXCEPT ![j] = invoked[j] + 1]
            /\ running' = [running EXCEPT ![j] =
                             @ \cup {[n |-> invoked[j] + 1, pc |-> "query"]}]
            /\ events' = [events EXCEPT ![j] =
                            progressCallback(@, invoked[j] + 1, CheckpointsBeforeQuery)]
            /\ jobProgress' = jobProgressAfter(j, CheckpointsBeforeQuery)
            /\ UNCHANGED <<stored, attemptsMade, returnvalue, failedReason, attemptLog>>
       ELSE /\ moveToFailed(j, "rejected", NoProcessorMsg, events[j])
            /\ UNCHANGED <<running, jobProgress>>
  /\ UNCHANGED <<jobData, timeouts>>

(***************************************************************************)
(* The strategy's continuation after perplexityClient.query.               *)
(***************************************************************************)
\* query rejects: the strategy rethrows.
queryRejects(j, n) ==
  /\ UNCHANGED nonQueueVars
  /\ [n |-> n, pc |-> "query"] \in running[j]
  /\ running' = [running EXCEPT ![j] = @ \ {[n |-> n, pc |-> "query"]}]
  /\ \E msg \in QueryErrors : Settle(j, n, "rejected", msg, 0, events[j])
  /\ UNCHANGED <<jobData, jobProgress, invoked, timeouts>>

\* query returns text the parser salvages nothing from: the strategy throws.
parseFails(j, n) ==
  /\ UNCHANGED nonQueueVars
  /\ [n |-> n, pc |-> "query"] \in running[j]
  /\ running' = [running EXCEPT ![j] = @ \ {[n |-> n, pc |-> "query"]}]
  /\ jobProgress' = jobProgressAfter(j, CheckpointAfterQuery)
  /\ Settle(j, n, "rejected", ParseFailedMsg, 0,
            progressCallback(events[j], n, CheckpointAfterQuery))
  /\ UNCHANGED <<jobData, invoked, timeouts>>

\* query returns text the parser recovers fields from: the strategy builds
\* the record and suspends on the save call.
queryReturns(j, n) ==
  /\ UNCHANGED nonQueueVars
  /\ [n |-> n, pc |-> "query"] \in running[j]
  /\ running' = [running EXCEPT ![j] =
                   (@ \ {[n |-> n, pc |-> "query"]}) \cup {[n |-> n, pc |-> "save"]}]
  /\ jobProgress' = jobProgressAfter(j, CheckpointsBeforeSave)
  /\ events' = [events EXCEPT ![j] = progressCallback(@, n, CheckpointsBeforeSave)]
  /\ UNCHANGED <<jobState, stored, jobData, attemptsMade, returnvalue, failedReason,
                 currentInv, invoked, attemptLog, timeouts>>

(***************************************************************************)
(* The strategy's continuation after the supabaseService save call.        *)
(***************************************************************************)
saveRejects(j, n) ==
  /\ UNCHANGED nonQueueVars
  /\ [n |-> n, pc |-> "save"] \in running[j]
  /\ running' = [running EXCEPT ![j] = @ \ {[n |-> n, pc |-> "save"]}]
  /\ \E msg \in SaveErrors : Settle(j, n, "rejected", msg, 0, events[j])
  /\ UNCHANGED <<jobData, jobProgress, invoked, timeouts>>

\* The save returns. RegulationsProcessor then calls saveIndustryMARegulations,
\* which supabaseService does not define; the others report 90 and resolve.
saveReturns(j, n) ==
  /\ UNCHANGED nonQueueVars
  /\ [n |-> n, pc |-> "save"] \in running[j]
  /\ running' = [running EXCEPT ![j] = @ \ {[n |-> n, pc |-> "save"]}]
  /\ IF jobData[j].type = "regulations"
       THEN /\ Settle(j, n, "rejected", NotAFunctionMsg, 0, events[j])
            /\ UNCHANGED jobProgress
       ELSE /\ jobProgress' = jobProgressAfter(j, CheckpointAfterSave)
            /\ Settle(j, n, "resolved", "", ProcessorResult(n),
                      progressCallback(events[j], n, CheckpointAfterSave))
  /\ UNCHANGED <<jobData, invoked, timeouts>>

(***************************************************************************)
(* Bull's timeout option: the attempt fails; the invocation is not stopped.*)
(***************************************************************************)
jobTimeout(j) ==
  /\ UNCHANGED nonQueueVars
  /\ jobState[j] = "active"
  /\ currentInv[j] # 0
  /\ timeouts < MaxTimeouts
  /\ timeouts' = timeouts + 1
  /\ moveToFailed(j, "timeout", TimeoutMsg, events[j])
  /\ UNCHANGED <<jobData, jobProgress, running, invoked>>

(***************************************************************************)
(* Bull's backoff option: the delay over, the job waits for the worker.    *)
(***************************************************************************)
backoffElapsed(j) ==
  /\ UNCHANGED nonQueueVars
  /\ jobState[j] = "delayed"
  /\ jobState' = [jobState EXCEPT ![j] = "waiting"]
  /\ UNCHANGED <<stored, jobData, attemptsMade, jobProgress, returnvalue,
                 failedReason, running, currentInv, invoked, attemptLog, events,
                 timeouts>>

Next ==
  \/ \E j \in JobIds, t \in SubmittedTypes, d \in SubmittedFlags : addJob(j, t, d)
  \/ \E j \in JobIds : processJob(j)
  \/ \E j \in JobIds, n \in 1..attempts : queryRejects(j, n)
  \/ \E j \in JobIds, n \in 1..attempts : parseFails(j, n)
  \/ \E j \in JobIds, n \in 1..attempts : queryReturns(j, n)
  \/ \E j \in JobIds, n \in 1..attempts : saveRejects(j, n)
  \/ \E j \in JobIds, n \in 1..attempts : saveReturns(j, n)
  \/ \E j \in JobIds : jobTimeout(j)
  \/ \E j \in JobIds : backoffElapsed(j)

Spec == Init /\ [][Next]_vars

(***************************************************************************)
(* JobQueue.getJobStatus: the job is looked up among the active, waiting,  *)
(* completed and failed jobs of the store.                                 *)
(***************************************************************************)
StatusLists == {"active", "waiting", "completed", "failed"}

NotFound ==
  [status |-> "not-found", progress |-> 0, data |-> NoData, result |-> NoResult,
   failedReason |-> ""]

getJobStatus(j) ==
  IF stored[j] /\ jobState[j] \in StatusLists
    THEN [status |-> jobState[j], progress |-> jobProgress[j], data |-> jobData[j],
          result |-> returnvalue[j], failedReason |-> failedReason[j]]
    ELSE NotFound

(***************************************************************************)
(* Fairness: the worker keeps claiming waiting jobs, a backoff delay ends, *)
(* and the external call of the awaited invocation returns or the attempt  *)
(* is cut off by the queue timeout.                                        *)
(***************************************************************************)
attemptEnds(j) ==
  \/ jobTimeout(j)
  \/ \E n \in 1..attempts :
       /\ n = currentInv[j]
       /\ \/ queryRejects(j, n)
          \/ parseFails(j, n)
          \/ queryReturns(j, n)
          \/ saveRejects(j, n)
          \/ saveReturns(j, n)

FairSpec ==
  /\ Spec
  /\ \A j \in JobIds : SF_vars(processJob(j))
  /\ \A j \in JobIds : WF_vars(backoffElapsed(j))
  /\ \A j \in JobIds : WF_vars(attemptEnds(j))

(***************************************************************************)
(* Claims about the queue.                                                 *)
(***************************************************************************)
ProgressEvents(j) == SelectSeq(events[j], LAMBDA e : e.kind = "job-progress")

HasEvent(j, kind) == \E i \in DOMAIN events[j] : events[j][i].kind = kind

AllRejected(log) == \A i \in DOMAIN log : log[i].kind = "rejected"

\* C1: every accepted job is eventually reported by getJobStatus as
\* completed or failed.
C1_StatusEventuallyTerminal ==
  \A j \in JobIds :
    (jobState[j] # "none") ~> (getJobStatus(j).status \in {"completed", "failed"})

\* C2: a job whose processor rejects twice is given a third attempt, and when
\* that attempt resolves the job is completed and a job-complete event with
\* the third invocation's result has been pushed.
C2_RetryThenSucceed ==
  \A j \in JobIds :
    LET log == attemptLog[j] IN
      /\ (Len(log) = 2 /\ AllRejected(log))
           => jobState[j] \in {"delayed", "waiting", "active"}
      /\ (Len(log) = 3 /\ AllRejected(SubSeq(log, 1, 2)) /\ log[3].kind = "resolved")
           => /\ jobState[j] = "completed"
              /\ \E i \in DOMAIN events[j] :
                   /\ events[j][i].kind = "job-complete"
                   /\ events[j][i].result = ProcessorResult(3)

C2_Witness ==
  \E j \in JobIds :
    /\ Len(attemptLog[j]) = 3
    /\ AllRejected(SubSeq(attemptLog[j], 1, 2))
    /\ attemptLog[j][3].kind = "resolved"
    /\ jobState[j] = "completed"

\* C3: a job whose processor rejects on every attempt is failed after exactly
\* three attempts, the processor is never invoked a fourth time, and the
\* failure reason is the message of the last attempt's error.
C3_FailsAfterThreeAttempts ==
  \A j \in JobIds :
    LET log == attemptLog[j] IN
      /\ invoked[j] <= 3
      /\ (AllRejected(log) /\ Len(log) < 3) => jobState[j] # "failed"
      /\ (AllRejected(log) /\ Len(log) = 3)
           => /\ jobState[j] = "failed"
              /\ invoked[j] = 3
              /\ failedReason[j] = log[3].msg
              /\ getJobStatus(j).failedReason = log[3].msg

C3_Witness ==
  \E j \in JobIds :
    /\ Len(attemptLog[j]) = 3
    /\ AllRejected(attemptLog[j])
    /\ attemptLog[j][1].msg # attemptLog[j][3].msg
    /\ jobState[j] = "failed"

\* C4: no job-error event is pushed for a job that still has attempts
\* remaining and will be retried.
C4_NoErrorEventBeforeExhaustion ==
  \A j \in JobIds :
    jobState[j] \in {"delayed", "waiting", "active"} => ~HasEvent(j, "job-error")

\* C5: consecutive progress events of one job id have non-decreasing
\* percentages, across all of its attempts.
C5_ProgressMonotonicAcrossAttempts ==
  \A j \in JobIds :
    LET ps == ProgressEvents(j) IN
      \A i \in 1..(Len(ps) - 1) : ps[i].progress <= ps[i + 1].progress

\* C6: at most one processor invocation is in flight for a job id.
C6_OneInvocationInFlight ==
  \A j \in JobIds : Cardinality(running[j]) <= 1

(***************************************************************************)
(* SupabaseService: the save helpers. Every request to the store is a      *)
(* suspension point, and the store may answer any request with an error.   *)
(***************************************************************************)
SingletonHelpers ==
  {"saveIndustrySupplyChain", "saveIndustryEndMarkets", "saveIndustryRegulations"}

TableOf(op) ==
  CASE op = "saveIndustryOverview" -> "industry_overview"
    [] op = "saveIndustryCompetitors" -> "industry_competitors"
    [] op = "saveIndustrySupplyChain" -> "industry_supplychain"
    [] op = "saveIndustryEndMarkets" -> "industry_endmarkets"
    [] op = "saveIndustryRegulations" -> "industry_regulations"

\* The records call c inserts.
BatchRows(c) ==
  {[entity_id |-> calls[c].entity_id, profile_id |-> calls[c].profile_id,
    call |-> c, idx |-> i] : i \in 1..calls[c].size}

InProgress(c) == calls[c].pc \in {"upsert", "delete", "insert"}

\* A helper is called: the call is suspended on its first request.
startCall(c, op, e, p, size, pc) ==
  /\ calls[c].pc = "idle"
  /\ \A i \in CallIds : i < c => calls[i].pc # "idle"
  /\ calls' = [calls EXCEPT ![c] =
                 [op |-> op, entity_id |-> e, profile_id |-> p, size |-> size, pc |-> pc]]
  /\ overlapped' = (overlapped \/ \E i \in CallIds : InProgress(i))
  /\ UNCHANGED <<rows, deleteFailed>>
  /\ UNCHANGED nonStoreVars

finishCall(c, pc) == calls' = [calls EXCEPT ![c].pc = pc]

\* saveIndustryOverview: one upsert on conflict of entity_id.
saveIndustryOverview(c, e, p) == startCall(c, "saveIndustryOverview", e, p, 1, "upsert")

overviewUpsert(c, error) ==
  /\ calls[c].pc = "upsert"
  /\ IF error
       THEN finishCall(c, "threw") /\ UNCHANGED rows
       ELSE /\ finishCall(c, "returned")
            /\ rows' = [rows EXCEPT !["industry_overview"] =
                          {r \in @ : r.entity_id # calls[c].entity_id} \cup BatchRows(c)]
  /\ UNCHANGED <<overlapped, deleteFailed>>
  /\ UNCHANGED nonStoreVars

\* saveIndustryCompetitors: delete by entity_id, result not inspected; then
\* insert the batch unless it is empty.
saveIndustryCompetitors(c, e, p, size) ==
  startCall(c, "saveIndustryCompetitors", e, p, size, "delete")

competitorsDelete(c, error) ==
  /\ calls[c].op = "saveIndustryCompetitors"
  /\ calls[c].pc = "delete"
  /\ rows' = [rows EXCEPT !["industry_competitors"] =
                IF error THEN @ ELSE {r \in @ : r.entity_id # calls[c].entity_id}]
  /\ deleteFailed' = (deleteFailed \/ error)
  /\ finishCall(c, IF calls[c].size > 0 THEN "insert" ELSE "returned")
  /\ UNCHANGED overlapped
  /\ UNCHANGED nonStoreVars

\* saveIndustrySupplyChain, saveIndustryEndMarkets, saveIndustryRegulations:
\* delete by entity_id and profile_id, a delete error only logged; then insert.
saveSingleton(c, op, e, p) ==
  /\ op \in SingletonHelpers
  /\ startCall(c, op, e, p, 1, "delete")

singletonDelete(c, deleteError) ==
  /\ calls[c].op \in SingletonHelpers
  /\ calls[c].pc = "delete"
  /\ rows' = [rows EXCEPT ![TableOf(calls[c].op)] =
                IF deleteError
                  THEN @
                  ELSE {r \in @ : ~(/\ r.entity_id = calls[c].entity_id
                                    /\ r.profile_id = calls[c].profile_id)}]
  /\ deleteFailed' = (deleteFailed \/ deleteError)
  /\ finishCall(c, "insert")
  /\ UNCHANGED overlapped
  /\ UNCHANGED nonStoreVars

\* The insert request of either kind of helper: an error is thrown.
storeInsert(c, error) ==
  /\ calls[c].pc = "insert"
  /\ IF error
       THEN finishCall(c, "threw") /\ UNCHANGED rows
       ELSE /\ finishCall(c, "returned")
            /\ rows' = [rows EXCEPT ![TableOf(calls[c].op)] = @ \cup BatchRows(c)]
  /\ UNCHANGED <<overlapped, deleteFailed>>
  /\ UNCHANGED nonStoreVars

StoreNext ==
  \/ \E c \in CallIds, e \in Entities, p \in Profiles : saveIndustryOverview(c, e, p)
  \/ \E c \in CallIds, error \in BOOLEAN : overviewUpsert(c, error)
  \/ \E c \in CallIds, e \in Entities, p \in Profiles, size \in 0..MaxBatch :
       saveIndustryCompetitors(c, e, p, size)
  \/ \E c \in CallIds, error \in BOOLEAN : competitorsDelete(c, error)
  \/ \E c \in CallIds, op \in SingletonHelpers, e \in Entities, p \in Profiles :
       saveSingleton(c, op, e, p)
  \/ \E c \in CallIds, error \in BOOLEAN : singletonDelete(c, error)
  \/ \E c \in CallIds, error \in BOOLEAN : storeInsert(c, error)

StoreSpec == Init /\ [][StoreNext]_vars

(***************************************************************************)
(* Claims about the save helpers.                                          *)
(***************************************************************************)
Returned(op, e, p) ==
  {c \in CallIds : /\ calls[c].op = op
                   /\ calls[c].entity_id = e
                   /\ calls[c].profile_id = p
                   /\ calls[c].pc = "returned"}

RowsOf(op, e, p) ==
  {r \in rows[TableOf(op)] : r.entity_id = e /\ r.profile_id = p}

Quiescent == \A c \in CallIds : ~InProgress(c)

Last(S) == CHOOSE c \in S : \A d \in S : d <= c

\* C7: when calls of saveIndustryCompetitors for one owner overlap, the store
\* ends with exactly the records of one of the batches, never their union.
C7_OverlapLeavesOneBatch ==
  \A e \in Entities, p \in Profiles :
    (/\ Quiescent
     /\ ~deleteFailed
     /\ \A c \in CallIds : calls[c].pc # "threw"
     /\ Returned("saveIndustryCompetitors", e, p) # {})
      => \E c \in Returned("saveIndustryCompetitors", e, p) :
           RowsOf("saveIndustryCompetitors", e, p) = BatchRows(c)

\* C8: after any sequence of save calls for one owner key that each returned
\* without throwing, the store holds exactly one record of each singleton
\* type saved and exactly the last batch of competitors.
C8_SequentialSavesReplace ==
  \A e \in Entities, p \in Profiles :
    (/\ Quiescent
     /\ ~overlapped
     /\ \A c \in CallIds : calls[c].pc # "threw")
      => /\ \A op \in SingletonHelpers \cup {"saveIndustryOverview"} :
              Returned(op, e, p) # {} => Cardinality(RowsOf(op, e, p)) = 1
         /\ Returned("saveIndustryCompetitors", e, p) # {}
              => RowsOf("saveIndustryCompetitors", e, p)
                   = BatchRows(Last(Returned("saveIndustryCompetitors", e, p)))

(***************************************************************************)
(* PerplexityClient: text is a sequence of characters, each a string.      *)
(***************************************************************************)
Whitespace == {" ", "\n"}

Digits == {"0", "1", "2", "3", "4", "5", "6", "7", "8", "9"}

Quote == "\""

Min(S) == CHOOSE x \in S : \A y \in S : x <= y

Max(S) == CHOOSE x \in S : \A y \in S : y <= x

\* pat occurs in s at index i.
Match(s, i, pat) ==
  /\ i >= 1
  /\ i + Len(pat) - 1 <= Len(s)
  /\ SubSeq(s, i, i + Len(pat) - 1) = pat

\* String.indexOf and lastIndexOf, 1-based; 0 stands for -1.
indexOf(s, pat) ==
  LET hits == {i \in 1..Len(s) : Match(s, i, pat)}
  IN  IF hits = {} THEN 0 ELSE Min(hits)

lastIndexOf(s, pat) ==
  LET hits == {i \in 1..Len(s) : Match(s, i, pat)}
  IN  IF hits = {} THEN 0 ELSE Max(hits)

\* The regular expression \s* from index i: the index of the first
\* character that is not whitespace.
RECURSIVE SkipWs(_, _)
SkipWs(s, i) ==
  IF i <= Len(s) /\ s[i] \in Whitespace THEN SkipWs(s, i + 1) ELSE i

\* String.trim
trim(s) ==
  LET solid == {i \in 1..Len(s) : s[i] \notin Whitespace}
  IN  IF solid = {} THEN <<>> ELSE SubSeq(s, Min(solid), Max(solid))

\* Every occurrence of pat and the whitespace after it is removed, from index i.
RECURSIVE RemoveAll(_, _, _)
RemoveAll(s, i, pat) ==
  IF i > Len(s) THEN <<>>
  ELSE IF Match(s, i, pat) THEN RemoveAll(s, SkipWs(s, i + Len(pat)), pat)
  ELSE <<s[i]>> \o RemoveAll(s, i + 1, pat)

\* The backquote character.
Backquote == "BQ"

Fence == <<Backquote, Backquote, Backquote>>

FenceJson == Fence \o <<"j", "s", "o", "n">>

\* Both replacements of markdown code fences, the json-tagged one first.
removeMarkdown(s) == RemoveAll(RemoveAll(s, 1, FenceJson), 1, Fence)

ThinkOpen == <<"<", "t", "h", "i", "n", "k", ">">>

ThinkClose == <<"<", "/", "t", "h", "i", "n", "k", ">">>

\* A leading <think> block is dropped up to its </think>, and the rest trimmed.
removeThink(s) ==
  IF Match(s, 1, ThinkOpen) /\ indexOf(s, ThinkClose) # 0
    THEN trim(SubSeq(s, indexOf(s, ThinkClose) + Len(ThinkClose), Len(s)))
    ELSE s

\* The bracket/brace counting loops: from index i with the count at depth,
\* the index at which the count returns to zero; 0 if it never does.
RECURSIVE countingScan(_, _, _, _, _)
countingScan(s, i, depth, open, close) ==
  IF i > Len(s) THEN 0
  ELSE IF s[i] = open THEN countingScan(s, i + 1, depth + 1, open, close)
  ELSE IF s[i] = close
    THEN IF depth - 1 = 0 THEN i ELSE countingScan(s, i + 1, depth - 1, open, close)
  ELSE countingScan(s, i + 1, depth, open, close)

\* Trailing-comma removal: a comma goes when only whitespace separates it
\* from a character of closers.
RECURSIVE removeTrailingCommas(_, _, _)
removeTrailingCommas(s, i, closers) ==
  IF i > Len(s) THEN <<>>
  ELSE IF /\ s[i] = ","
          /\ SkipWs(s, i + 1) <= Len(s)
          /\ s[SkipWs(s, i + 1)] \in closers
    THEN removeTrailingCommas(s, i + 1, closers)
  ELSE <<s[i]>> \o removeTrailingCommas(s, i + 1, closers)

(***************************************************************************)
(* JSON.parse on the alphabet of the model: objects, arrays, strings       *)
(* without escapes and integer literals. A parsed value is kept as its     *)
(* compact text, so two values are structurally equal exactly when their   *)
(* texts are equal; an object also keeps its members as <<name, value>>.   *)
(***************************************************************************)
SyntaxError == [ok |-> FALSE, next |-> 0, val |-> <<>>, members |-> <<>>]

Parsed(next, val, members) ==
  [ok |-> TRUE, next |-> next, val |-> val, members |-> members]

\* s[i] is the opening quote.
ParseString(s, i) ==
  LET closing == {k \in (i + 1)..Len(s) : s[k] = Quote}
  IN  IF closing = {} THEN SyntaxError
      ELSE IF \E k \in (i + 1)..(Min(closing) - 1) : s[k] = "\n" THEN SyntaxError
      ELSE Parsed(Min(closing) + 1, SubSeq(s, i, Min(closing)), <<>>)

RECURSIVE DigitsEnd(_, _)
DigitsEnd(s, i) ==
  IF i <= Len(s) /\ s[i] \in Digits THEN DigitsEnd(s, i + 1) ELSE i

\* s[i] is a digit or the minus sign.
ParseNumber(s, i) ==
  LET first == IF s[i] = "-" THEN i + 1 ELSE i
      stop == IF first <= Len(s) /\ s[first] = "0" THEN first + 1 ELSE DigitsEnd(s, first)
  IN  IF stop = first THEN SyntaxError ELSE Parsed(stop, SubSeq(s, i, stop - 1), <<>>)

RECURSIVE ParseValue(_, _), ParseMembers(_, _, _, _), ParseElements(_, _, _)
ParseValue(s, i0) ==
  LET i == SkipWs(s, i0)
  IN  IF i > Len(s) THEN SyntaxError
      ELSE IF s[i] = Quote THEN ParseString(s, i)
      ELSE IF s[i] \in Digits \cup {"-"} THEN ParseNumber(s, i)
      ELSE IF s[i] = "{"
        THEN IF SkipWs(s, i + 1) <= Len(s) /\ s[SkipWs(s, i + 1)] = "}"
               THEN Parsed(SkipWs(s, i + 1) + 1, <<"{", "}">>, <<>>)
               ELSE ParseMembers(s, i + 1, <<"{">>, <<>>)
      ELSE IF s[i] = "["
        THEN IF SkipWs(s, i + 1) <= Len(s) /\ s[SkipWs(s, i + 1)] = "]"
               THEN Parsed(SkipWs(s, i + 1) + 1, <<"[", "]">>, <<>>)
               ELSE ParseElements(s, i + 1, <<"[">>)
      ELSE SyntaxError

\* The members of an object from index i0; acc is the text so far.
ParseMembers(s, i0, acc, members) ==
  LET i == SkipWs(s, i0)
      key == IF i <= Len(s) /\ s[i] = Quote THEN ParseString(s, i) ELSE SyntaxError
      colon == SkipWs(s, key.next)
      value == IF key.ok /\ colon <= Len(s) /\ s[colon] = ":"
                 THEN ParseValue(s, colon + 1)
                 ELSE SyntaxError
      after == SkipWs(s, value.next)
      text1 == acc \o key.val \o <<":">> \o value.val
      members1 == Append(members, <<SubSeq(key.val, 2, Len(key.val) - 1), value.val>>)
  IN  IF ~value.ok \/ after > Len(s) THEN SyntaxError
      ELSE IF s[after] = "," THEN ParseMembers(s, after + 1, text1 \o <<",">>, members1)
      ELSE IF s[after] = "}" THEN Parsed(after + 1, text1 \o <<"}">>, members1)
      ELSE SyntaxError

\* The elements of an array from index i0; acc is the text so far.
ParseElements(s, i0, acc) ==
  LET value == ParseValue(s, i0)
      after == SkipWs(s, value.next)
      text1 == acc \o value.val
  IN  IF ~value.ok \/ after > Len(s) THEN SyntaxError
      ELSE IF s[after] = "," THEN ParseElements(s, after + 1, text1 \o <<",">>)
      ELSE IF s[after] = "]" THEN Parsed(after + 1, text1 \o <<"]">>, <<>>)
      ELSE SyntaxError

JSONparse(s) ==
  LET r == ParseValue(s, 1)
  IN  IF r.ok /\ SkipWs(s, r.next) > Len(s) THEN r ELSE SyntaxError

(***************************************************************************)
(* PerplexityClient: extraction of single fields and the parser.           *)
(***************************************************************************)
\* The text "fieldName": that every start pattern begins with.
FieldKey(fieldName) == <<Quote>> \o fieldName \o <<Quote, ":">>

\* content.match of a start pattern: the first index at which the key is
\* followed, after optional whitespace, by a character of opening; the result
\* is the index of that character, 0 when there is no match.
matchStart(content, fieldName, opening) ==
  LET key == FieldKey(fieldName)
      hits == {i \in 1..Len(content) :
                 /\ Match(content, i, key)
                 /\ SkipWs(content, i + Len(key)) <= Len(content)
                 /\ content[SkipWs(content, i + Len(key))] \in opening}
  IN  IF hits = {} THEN 0 ELSE SkipWs(content, Min(hits) + Len(key))

NoValue == [found |-> FALSE, val |-> <<>>]

Value(val) == [found |-> TRUE, val |-> val]

\* try { return JSON.parse(...) } catch { return null }
parsedOrNull(result) == IF result.ok THEN Value(result.val) ELSE NoValue

\* The text from the opening character at startIndex to the character that
\* closes it, cleaned of trailing commas and parsed; null when it is not closed.
extractFrom(content, startIndex, open, close) ==
  IF startIndex = 0 THEN NoValue
  ELSE IF countingScan(content, startIndex, 0, open, close) = 0 THEN NoValue
  ELSE parsedOrNull(JSONparse(removeTrailingCommas(
         SubSeq(content, startIndex, countingScan(content, startIndex, 0, open, close)),
         1, {close})))

extractCompleteArray(content, fieldName) ==
  extractFrom(content, matchStart(content, fieldName, {"["}), "[", "]")

extractCompleteObject(content, fieldName) ==
  extractFrom(content, matchStart(content, fieldName, {"{"}), "{", "}")

\* parseFloat of a run of digits: the number they write, without the zeros
\* in front of it.
RECURSIVE parseFloat(_)
parseFloat(run) ==
  IF Len(run) > 1 /\ run[1] = "0" THEN parseFloat(Tail(run)) ELSE run

\* The string pattern is tried on the whole content before the number
\* pattern. The string pattern needs a closing quote somewhere after the
\* opening one; the number pattern takes the longest run of digits and stops
\* wherever the run stops.
extractSimpleField(content, fieldName) ==
  LET key == FieldKey(fieldName)
      open(i) == SkipWs(content, i + Len(key))
      closings(i) == {k \in (open(i) + 1)..Len(content) : content[k] = Quote}
      stringHits == {i \in 1..Len(content) :
                       /\ Match(content, i, key)
                       /\ open(i) <= Len(content)
                       /\ content[open(i)] = Quote
                       /\ closings(i) # {}}
      numberStart == matchStart(content, fieldName, Digits)
  IN  IF stringHits # {}
        THEN Value(SubSeq(content, open(Min(stringHits)), Min(closings(Min(stringHits)))))
      ELSE IF numberStart # 0
        THEN Value(parseFloat(SubSeq(content, numberStart, DigitsEnd(content, numberStart) - 1)))
      ELSE NoValue

\* a || b on values that are null or an array, an object, a string or a
\* number; b is the last alternative, so only null makes a give way.
orElse(a, b) == IF a.found THEN a ELSE b

\* array || object || simple field, for one field.
extractedValue(content, fieldName) ==
  orElse(extractCompleteArray(content, fieldName),
         orElse(extractCompleteObject(content, fieldName),
                extractSimpleField(content, fieldName)))

Range(seq) == {seq[i] : i \in 1..Len(seq)}

\* The mapping from the names of the fields that were extracted to their values.
extractedData(values) ==
  [fieldName \in {f \in DOMAIN values : values[f].found} |-> values[fieldName].val]

extractCompleteSubObjects(content, expectedFields) ==
  extractedData([fieldName \in Range(expectedFields) |-> extractedValue(content, fieldName)])

\* The object JSON.parse builds from the members of the top-level object:
\* for a name written twice, the last value.
ObjectOf(members) ==
  [name \in {members[i][1] : i \in 1..Len(members)} |->
     members[Max({i \in 1..Len(members) : members[i][1] = name})][2]]

Returns(mapping) == [null |-> FALSE, fields |-> mapping]

\* The catch block: fences are removed from the untrimmed result, then a
\* leading think block; the fields are extracted one by one.
\* Object.keys(extractedData).length > 0 ? extractedData : null
nonEmptyOrNull(mapping) == IF DOMAIN mapping # {} THEN Returns(mapping) ELSE Null

salvage(searchResult, expectedFields) ==
  nonEmptyOrNull(extractCompleteSubObjects(removeThink(removeMarkdown(searchResult)),
                                           expectedFields))

\* JSON.parse of the cleaned text between the boundaries; a throw goes to
\* the catch block.
parseOrSalvage(parsedResult, searchResult, expectedFields) ==
  IF parsedResult.ok
    THEN Returns(ObjectOf(parsedResult.members))
    ELSE salvage(searchResult, expectedFields)

\* From the boundaries on: null when there is no brace of either kind, the
\* extraction of sub-objects when the first brace is never closed, and the
\* parse of the text up to the brace that closes it otherwise.
parseBetween(content, jsonStartIndex, jsonEndIndex, properJsonEndIndex, searchResult, expectedFields) ==
  IF jsonStartIndex = 0 \/ jsonEndIndex = 0 THEN Null
  ELSE IF properJsonEndIndex = 0
    THEN nonEmptyOrNull(extractCompleteSubObjects(content, expectedFields))
  ELSE parseOrSalvage(
         JSONparse(removeTrailingCommas(
           SubSeq(content, jsonStartIndex, properJsonEndIndex), 1, {"}", "]"})),
         searchResult, expectedFields)

\* The boundaries of the JSON object in the cleaned content.
parseContent(content, searchResult, expectedFields) ==
  parseBetween(content,
               indexOf(content, <<"{">>),
               lastIndexOf(content, <<"}">>),
               IF indexOf(content, <<"{">>) = 0
                 THEN 0
                 ELSE countingScan(content, indexOf(content, <<"{">>), 0, "{", "}"),
               searchResult, expectedFields)

parseResponseWithTruncationHandling(searchResult, expectedFields) ==
  parseContent(removeMarkdown(removeThink(trim(searchResult))),
               searchResult, expectedFields)

(***************************************************************************)
(* PerplexityClient.query: what it makes of the content of the API's       *)
(* answer before it returns it as data.                                    *)
(***************************************************************************)
\* content.replace(/(\d)_(\d)/g, '$1$2'): the matches are taken from left
\* to right and do not overlap; string literals are not told apart.
RECURSIVE removeUnderscores(_, _)
removeUnderscores(s, i) ==
  IF i > Len(s) THEN <<>>
  ELSE IF /\ i + 2 <= Len(s)
          /\ s[i] \in Digits
          /\ s[i + 1] = "_"
          /\ s[i + 2] \in Digits
    THEN <<s[i], s[i + 2]>> \o removeUnderscores(s, i + 3)
  ELSE <<s[i]>> \o removeUnderscores(s, i + 1)

\* The opening of the fence pattern: three backquotes, jso, an optional n.
FenceJso == Fence \o <<"j", "s", "o">>

\* The index at which the group of the fence pattern starts, after the
\* optional n and the optional newline; 0 when the opening does not occur.
fencedStart(content) ==
  LET i == indexOf(content, FenceJso)
      a == i + Len(FenceJso)
      b == IF a <= Len(content) /\ content[a] = "n" THEN a + 1 ELSE a
  IN  IF i = 0 THEN 0
      ELSE IF b <= Len(content) /\ content[b] = "\n" THEN b + 1 ELSE b

\* The index after the group, which is as short as can be: the first place
\* from start where a closing fence, or a newline and a closing fence,
\* stands; 0 when there is none.
fencedEnd(content, start) ==
  LET ends == {e \in start..Len(content) :
                 \/ Match(content, e, Fence)
                 \/ content[e] = "\n" /\ Match(content, e + 1, Fence)}
  IN  IF start = 0 \/ ends = {} THEN 0 ELSE Min(ends)

TextData(content) == [kind |-> "text", text |-> content, members |-> <<>>]

ObjectData(result) == [kind |-> "object", text |-> result.val, members |-> result.members]

QueryThrew == [kind |-> "threw", text |-> <<>>, members |-> <<>>]

\* content.trim().startsWith('{') || content.trim().startsWith('[')
looksLikeJson(content) == trim(content) # <<>> /\ trim(content)[1] \in {"{", "["}

\* The catch block of the first JSON.parse: the text inside a json fence is
\* parsed, and that parse is not caught here; without a fence the content
\* stays as it is.
parseFenced(content, start, end) ==
  IF end = 0 THEN TextData(content)
  ELSE IF JSONparse(removeUnderscores(SubSeq(content, start, end - 1), 1)).ok
    THEN ObjectData(JSONparse(removeUnderscores(SubSeq(content, start, end - 1), 1)))
  ELSE QueryThrew

\* parsedData of query: the content itself unless it starts as JSON and
\* parses once the underscores between digits are gone.
queryData(content) ==
  IF ~looksLikeJson(content) THEN TextData(content)
  ELSE IF JSONparse(removeUnderscores(content, 1)).ok
    THEN ObjectData(JSONparse(removeUnderscores(content, 1)))
  ELSE parseFenced(content, fencedStart(content),
                   fencedEnd(content, fencedStart(content)))

\* The parser on searchResponse.data: a value that is not a string is
\* returned as it is.
parseData(searchResult, expectedFields) ==
  IF searchResult.kind = "text"
    THEN parseResponseWithTruncationHandling(searchResult.text, expectedFields)
    ELSE Returns(ObjectOf(searchResult.members))

(***************************************************************************)
(* Responses given to the parser: a compact JSON object whose top-level    *)
(* fields are the expected fields in order, cut after some character,      *)
(* bare or wrapped the way the API wraps it.                               *)
(***************************************************************************)
FieldNames == <<<<"a">>, <<"b">>, <<"c">>, <<"d">>>>

\* A number, strings (plain, and holding a comma and bracket, a brace, a
\* code fence), an array and an object.
FieldValues ==
  { <<"1", "2">>,
    <<Quote, "x", Quote>>,
    <<Quote, ",", "]", Quote>>,
    <<Quote, "}", Quote>>,
    <<Quote>> \o Fence \o <<Quote>>,
    <<"[", "1", "]">>,
    <<"{", Quote, "b", Quote, ":", "1", "}">> }

\* Text that follows the closing brace of a complete document: a further
\* closing brace, and a second object that has a member named as field a.
FollowingBrace == <<" ", "}">>

FollowingObject == <<"\n", "{", Quote, "a", Quote, ":", "[", "1", "]", "}">>

Followers == {"followedByBrace", "followedByObject"}

Wrappers == {"none", "fence", "think", "trailingCommas"} \cup Followers

expectedFields(fs) == SubSeq(FieldNames, 1, Len(fs))

FieldText(fs, k) == FieldKey(FieldNames[k]) \o fs[k]

RECURSIVE FieldsText(_, _)
FieldsText(fs, k) ==
  IF k > Len(fs) THEN <<>>
  ELSE FieldText(fs, k) \o (IF k < Len(fs) THEN <<",">> ELSE <<>>) \o FieldsText(fs, k + 1)

Document(fs) == <<"{">> \o FieldsText(fs, 1) \o <<"}">>

\* The same value and the same document written with a comma before every
\* closing bracket and brace of the structure.
WithTrailingComma(value) ==
  IF value[1] \in {"[", "{"}
    THEN SubSeq(value, 1, Len(value) - 1) \o <<",", value[Len(value)]>>
    ELSE value

TrailingCommaDocument(fs) ==
  <<"{">> \o FieldsText([k \in DOMAIN fs |-> WithTrailingComma(fs[k])], 1) \o <<",", "}">>

Response(fs, c, w) ==
  LET body == SubSeq(Document(fs), 1, c)
      complete == c = Len(Document(fs))
  IN  CASE w = "none" -> body
        [] w = "fence" -> FenceJson \o <<"\n">> \o body
                            \o (IF complete THEN <<"\n">> \o Fence ELSE <<>>)
        [] w = "think" -> ThinkOpen \o <<"x">> \o ThinkClose \o <<"\n">> \o body
        [] w = "trailingCommas" -> IF complete THEN TrailingCommaDocument(fs) ELSE body
        [] w = "followedByBrace" -> body \o (IF complete THEN FollowingBrace ELSE <<>>)
        [] w = "followedByObject" -> body \o (IF complete THEN FollowingObject ELSE <<>>)

ParserInit ==
  /\ QueueInit
  /\ CleanIdle
  /\ StoreInit
  /\ WsInit
  /\ RouteInit
  /\ StatusInit
  /\ StrategyIdle
  /\ \E n \in 1..MaxFields : fields \in [1..n -> FieldValues]
  /\ cut \in 1..Len(Document(fields))
  /\ wrapper \in Wrappers
  /\ text = Response(fields, cut, wrapper)
  /\ data = NotQueried
  /\ parsed = Null
  /\ parserPc = "input"

\* this.parseResponseWithTruncationHandling(searchResult, expectedFields)
parse ==
  /\ parserPc = "input"
  /\ parsed' = parseResponseWithTruncationHandling(text, expectedFields(fields))
  /\ parserPc' = "done"
  /\ UNCHANGED <<fields, cut, wrapper, text, data>>
  /\ UNCHANGED nonParserVars

ParserNext == parse

ParserSpec == ParserInit /\ [][ParserNext]_vars

\* The mapping a JSON parser gives for the first n fields of the document.
FirstFields(n) == [name \in {FieldNames[k] : k \in 1..n} |->
                     fields[CHOOSE k \in 1..n : FieldNames[k] = name]]

\* The index in the document of the first and of the last character of field k.
RECURSIVE FieldStart(_, _)
FieldStart(fs, k) ==
  IF k = 1 THEN 2 ELSE FieldStart(fs, k - 1) + Len(FieldText(fs, k - 1)) + 1

FieldEnd(fs, k) == FieldStart(fs, k) + Len(FieldText(fs, k)) - 1

\* The document is cut after the n-th field and its comma, with at least one
\* and not all of the characters of field n + 1.
CutInsideField(n) ==
  /\ n + 1 <= Len(fields)
  /\ cut >= FieldStart(fields, n + 1)
  /\ cut < FieldEnd(fields, n + 1)

\* C9: for every syntactically complete JSON object given as text, bare, the
\* parser returns a mapping structurally equal to the object, whatever
\* characters (brace, bracket, comma, code fence) its string values hold.
C9_CompleteObjectRoundTrip ==
  (parserPc = "done" /\ wrapper = "none" /\ cut = Len(Document(fields)))
    => parsed = Returns(FirstFields(Len(fields)))

\* C10: for a document cut after N >= 1 closed fields and part-way through
\* field N + 1, the parser returns exactly the first N fields with their
\* values, wherever inside field N + 1 the cut falls and whatever the kinds
\* of the fields.
C10_TruncationYieldsFirstFields ==
  \A n \in 1..MaxFields :
    (parserPc = "done" /\ wrapper = "none" /\ CutInsideField(n))
      => parsed = Returns(FirstFields(n))

\* The content the catch block or the truncation branch hands to
\* extractCompleteSubObjects for the response text.
salvageContent(searchResult) == removeThink(removeMarkdown(searchResult))

cleanedContent(searchResult) == removeMarkdown(removeThink(trim(searchResult)))

\* The parser took the truncation branch: both braces occur, and the first
\* opening brace is never closed.
TruncationDetected(searchResult) ==
  /\ indexOf(cleanedContent(searchResult), <<"{">>) # 0
  /\ lastIndexOf(cleanedContent(searchResult), <<"}">>) # 0
  /\ countingScan(cleanedContent(searchResult),
                  indexOf(cleanedContent(searchResult), <<"{">>), 0, "{", "}") = 0

\* Some contiguous piece of content is complete JSON text with value val.
IsParseOfPiece(content, val) ==
  \E i \in 1..Len(content) : \E j \in i..Len(content) :
    /\ JSONparse(SubSeq(content, i, j)).ok
    /\ JSONparse(SubSeq(content, i, j)).val = val

\* The field's key is followed by an opening bracket or brace that no later
\* character of content closes.
NeverClosed(content, fieldName) ==
  \/ /\ matchStart(content, fieldName, {"["}) # 0
     /\ countingScan(content, matchStart(content, fieldName, {"["}), 0, "[", "]") = 0
  \/ /\ matchStart(content, fieldName, {"{"}) # 0
     /\ countingScan(content, matchStart(content, fieldName, {"{"}), 0, "{", "}") = 0

\* C11: what the extraction of sub-objects returns in the truncation branch:
\* every array or object value is the parse of a contiguous, balanced piece of
\* the content, and a field whose opening bracket or brace is never closed is
\* not in the result.
C11_ExtractedValuesBalanced ==
  (parserPc = "done" /\ TruncationDetected(text) /\ ~parsed.null)
    => \A f \in Range(expectedFields(fields)) :
         /\ (f \in DOMAIN parsed.fields /\ parsed.fields[f][1] \in {"[", "{"})
              => IsParseOfPiece(cleanedContent(text), parsed.fields[f])
         /\ NeverClosed(cleanedContent(text), f) => f \notin DOMAIN parsed.fields

\* Field k of the document is in the response with the character after it.
StructurallyComplete(k) == k \in 1..Len(fields) /\ cut > FieldEnd(fields, k)

\* C12: the parser returns null exactly when no field is salvageable: a
\* mapping it returns has at least one field, it returns null when the text
\* stops inside the first field, and it does not return null when some
\* expected field is structurally complete in the text.
C12_NullExactlyWhenNothingSalvageable ==
  parserPc = "done"
    => /\ ~parsed.null => DOMAIN parsed.fields # {}
       /\ cut < FieldEnd(fields, 1) => parsed.null
       /\ (\E k \in 1..Len(fields) : StructurallyComplete(k)) => ~parsed.null

(***************************************************************************)
(* Job states over time.                                                   *)
(***************************************************************************)
LastOf(seq) == seq[Len(seq)]

\* C14: a completed or failed job never changes state again, and a job goes
\* from active back to the queue only by the retry path: the attempt failed,
\* it is counted, and fewer than three attempts have been made.
C14_TerminalStatesAbsorbing ==
  [][\A j \in JobIds :
       /\ jobState[j] \in {"completed", "failed"} => jobState'[j] = jobState[j]
       /\ (jobState[j] = "active" /\ jobState'[j] \in {"waiting", "delayed"})
            => /\ jobState'[j] = "delayed"
               /\ attemptsMade'[j] = attemptsMade[j] + 1
               /\ attemptsMade'[j] < 3
               /\ Len(attemptLog'[j]) = Len(attemptLog[j]) + 1
               /\ LastOf(attemptLog'[j]).kind \in {"rejected", "timeout"}]_vars

\* A job in a final state whose abandoned invocation went on reporting
\* progress after the terminal event.
C14_Witness ==
  \E j \in JobIds :
    /\ jobState[j] \in {"completed", "failed"}
    /\ events[j] # <<>>
    /\ LastOf(events[j]).kind = "job-progress"

(***************************************************************************)
(* WebSocketService: the handlers of a socket and the emissions to the     *)
(* room of a job. A socket.io room is a set of sockets: join of a room     *)
(* already joined changes nothing, leave removes the socket, a disconnect  *)
(* takes the socket out of every room, and an emission to a room is        *)
(* written once to each socket that is in the room at that moment.         *)
(***************************************************************************)
Logged(op, s, jobId) == wsLog' = Append(wsLog, [op |-> op, socket |-> s, jobId |-> jobId])

\* io.on('connection'): the socket is put in the map.
connection(s) ==
  /\ Len(wsLog) < MaxOps
  /\ s \notin connectedClients
  /\ connectedClients' = connectedClients \cup {s}
  /\ Logged("connection", s, 0)
  /\ UNCHANGED <<socketRooms, inbox, pongs>>
  /\ UNCHANGED nonWsVars

\* The room of a job: the template literal job:${jobId} of subscribe-job,
\* unsubscribe-job and the four send methods.
roomKey(jobId) == <<"job", ":", jobId>>

socketJoin(joined, jobId) == joined \cup {roomKey(jobId)}

\* socket.on('subscribe-job')
subscribeJob(s, jobId) ==
  /\ Len(wsLog) < MaxOps
  /\ s \in connectedClients
  /\ socketRooms' = [socketRooms EXCEPT ![s] = socketJoin(@, jobId)]
  /\ Logged("subscribe-job", s, jobId)
  /\ UNCHANGED <<connectedClients, inbox, pongs>>
  /\ UNCHANGED nonWsVars

socketLeave_keepsRoom(joined, jobId) == joined

socketLeave(joined, jobId) == joined \ {roomKey(jobId)}

\* socket.on('unsubscribe-job')
unsubscribeJob(s, jobId) ==
  /\ Len(wsLog) < MaxOps
  /\ s \in connectedClients
  /\ socketRooms' = [socketRooms EXCEPT ![s] = socketLeave(@, jobId)]
  /\ Logged("unsubscribe-job", s, jobId)
  /\ UNCHANGED <<connectedClients, inbox, pongs>>
  /\ UNCHANGED nonWsVars

\* socket.on('disconnect'): socket.io has emptied the socket's rooms; the
\* handler deletes it from the map.
disconnect(s) ==
  /\ Len(wsLog) < MaxOps
  /\ s \in connectedClients
  /\ connectedClients' = connectedClients \ {s}
  /\ socketRooms' = [socketRooms EXCEPT ![s] = {}]
  /\ Logged("disconnect", s, 0)
  /\ UNCHANGED <<inbox, pongs>>
  /\ UNCHANGED nonWsVars

EmitKinds == {"job-queued", "job-progress", "job-complete", "job-error"}

\* How many emissions the history holds.
Emissions == Cardinality({i \in DOMAIN wsLog : wsLog[i].op \in EmitKinds})

\* The sockets in the room of jobId.
room(jobId) == {s \in Sockets : roomKey(jobId) \in socketRooms[s]}

written_toEveryClient(s, jobId, update) ==
  IF s \in connectedClients THEN Append(inbox[s], update) ELSE inbox[s]

written_newestFirst(s, jobId, update) ==
  IF s \in room(jobId) THEN <<update>> \o inbox[s] ELSE inbox[s]

\* What socket s has been sent once update is emitted to the room of jobId.
written(s, jobId, update) ==
  IF s \in room(jobId) THEN Append(inbox[s], update) ELSE inbox[s]

\* sendJobQueued, sendJobProgress, sendJobComplete, sendJobError:
\* this.io.to(`job:${jobId}`).emit(kind, update). n numbers the emission.
sendJob(kind, jobId) ==
  /\ Len(wsLog) < MaxOps
  /\ inbox' = [s \in Sockets |->
                 written(s, jobId, [kind |-> kind, jobId |-> jobId, n |-> Emissions + 1])]
  /\ Logged(kind, 0, jobId)
  /\ UNCHANGED <<connectedClients, socketRooms, pongs>>
  /\ UNCHANGED nonWsVars

\* A pong emitted to every connected socket instead of the one that pinged.
socketEmitPong_toAll(s, t) == IF t \in connectedClients THEN pongs[t] + 1 ELSE pongs[t]

\* socket.emit('pong'): how many pongs socket t has been sent once socket s
\* is answered.
socketEmitPong(s, t) == IF t = s THEN pongs[t] + 1 ELSE pongs[t]

\* socket.on('ping')
ping(s) ==
  /\ Len(wsLog) < MaxOps
  /\ s \in connectedClients
  /\ pongs' = [t \in Sockets |-> socketEmitPong(s, t)]
  /\ Logged("ping", s, 0)
  /\ UNCHANGED <<connectedClients, socketRooms, inbox>>
  /\ UNCHANGED nonWsVars

WsNext ==
  \/ \E s \in Sockets : connection(s)
  \/ \E s \in Sockets, jobId \in RoomIds : subscribeJob(s, jobId)
  \/ \E s \in Sockets, jobId \in RoomIds : unsubscribeJob(s, jobId)
  \/ \E s \in Sockets : disconnect(s)
  \/ \E kind \in EmitKinds, jobId \in RoomIds : sendJob(kind, jobId)
  \/ \E s \in Sockets : ping(s)

WsSpec == Init /\ [][WsNext]_vars

(***************************************************************************)
(* Claims on the notification channel, stated on the history.              *)
(***************************************************************************)
IsEmission(i) == wsLog[i].op \in EmitKinds

\* The place in the history of emission number n.
EmissionIndex(n) ==
  CHOOSE i \in DOMAIN wsLog :
    IsEmission(i) /\ Cardinality({k \in 1..i : IsEmission(k)}) = n

\* Entry k of the history changes whether socket s is subscribed to jobId.
Concerns(k, s, jobId) ==
  /\ wsLog[k].socket = s
  /\ \/ wsLog[k].op \in {"connection", "disconnect"}
     \/ wsLog[k].op \in {"subscribe-job", "unsubscribe-job"} /\ wsLog[k].jobId = jobId

\* Before entry i of the history, the last thing socket s did about jobId
\* was to subscribe to it.
SubscribedAt(s, jobId, i) ==
  \E k \in 1..(i - 1) :
    /\ wsLog[k].op = "subscribe-job"
    /\ Concerns(k, s, jobId)
    /\ \A m \in (k + 1)..(i - 1) : Concerns(m, s, jobId) => wsLog[m].op = "subscribe-job"

Received(s, n) == \E k \in DOMAIN inbox[s] : inbox[s][k].n = n

\* C15: an update is delivered only to sockets subscribed to its job id when
\* it was emitted: none to a socket that subscribed later, none to one that
\* had unsubscribed or disconnected.
C15_DeliveredOnlyToSubscribersAtEmission ==
  \A s \in Sockets : \A k \in DOMAIN inbox[s] :
    SubscribedAt(s, inbox[s][k].jobId, EmissionIndex(inbox[s][k].n))

\* An emission that one socket received and that another socket, subscribed
\* to the same job only afterwards, did not.
C15_Witness ==
  \E s, t \in Sockets : \E i \in DOMAIN wsLog :
    /\ IsEmission(i)
    /\ Received(t, Cardinality({k \in 1..i : IsEmission(k)}))
    /\ ~Received(s, Cardinality({k \in 1..i : IsEmission(k)}))
    /\ s \in room(wsLog[i].jobId)

SubscribedTwiceThenLeft(s, jobId, k1, k2, u, e) ==
  /\ k1 < k2 /\ k2 < u /\ u < e
  /\ wsLog[k1].op = "subscribe-job" /\ Concerns(k1, s, jobId)
  /\ wsLog[k2].op = "subscribe-job" /\ Concerns(k2, s, jobId)
  /\ wsLog[u].op = "unsubscribe-job" /\ Concerns(u, s, jobId)
  /\ \A m \in (k1 + 1)..(e - 1) : Concerns(m, s, jobId) => m \in {k2, u}
  /\ IsEmission(e) /\ wsLog[e].jobId = jobId

\* Before emission e, the last thing socket s did about jobId was one
\* unsubscribe-job.
LeftBefore(s, jobId, e) ==
  \E u \in 1..(e - 1) :
    /\ wsLog[u].op = "unsubscribe-job"
    /\ Concerns(u, s, jobId)
    /\ \A m \in (u + 1)..(e - 1) : ~Concerns(m, s, jobId)

\* C20: a socket is sent each emission at most once, also after several
\* subscribe-job for the same job id, and after one unsubscribe-job it is
\* sent no further emission for that job id, however many times it had
\* subscribed.
C20_AtMostOnceAndOneUnsubscribeStops ==
  \A s \in Sockets :
    /\ \A k1, k2 \in DOMAIN inbox[s] : inbox[s][k1].n = inbox[s][k2].n => k1 = k2
    /\ \A e \in DOMAIN wsLog :
         (IsEmission(e) /\ LeftBefore(s, wsLog[e].jobId, e))
           => ~Received(s, Cardinality({k \in 1..e : IsEmission(k)}))

C20_Witness ==
  \E s \in Sockets, jobId \in RoomIds : \E k1, k2, u, e \in DOMAIN wsLog :
    SubscribedTwiceThenLeft(s, jobId, k1, k2, u, e)

(***************************************************************************)
(* The liveness probe next to the queue: sockets connect, subscribe and    *)
(* ping while jobs are submitted and worked on.                            *)
(***************************************************************************)
PingNext ==
  \/ Next
  \/ \E s \in Sockets : connection(s)
  \/ \E s \in Sockets, jobId \in RoomIds : subscribeJob(s, jobId)
  \/ \E s \in Sockets : ping(s)

PingSpec == Init /\ [][PingNext]_vars

\* The step is the ping handler of socket s.
IsPingOf(s) == wsLog' = Append(wsLog, [op |-> "ping", socket |-> s, jobId |-> 0])

\* A connected socket can be answered in every state of the jobs and of its
\* subscriptions (as long as the history has room for the step).
PingAlwaysAnswered ==
  \A s \in connectedClients : Len(wsLog) < MaxOps => ENABLED ping(s)

PongToPingerOnly ==
  \A s \in Sockets :
    IsPingOf(s) =>
      /\ pongs'[s] = pongs[s] + 1
      /\ \A t \in Sockets \ {s} : pongs'[t] = pongs[t]
      /\ inbox' = inbox
      /\ socketRooms' = socketRooms
      /\ connectedClients' = connectedClients
      /\ queueVars' = queueVars

\* C21: a ping of a socket is answered with one pong emitted to that socket
\* and to no other, whatever its subscriptions and the state of the jobs, and
\* the handler changes neither the subscriptions nor any job.
C21_PingAnsweredToPingerOnly == []PingAlwaysAnswered /\ [][PongToPingerOnly]_vars

\* A subscribed socket was just answered while a job is active and another
\* socket is connected.
C21_Witness ==
  \E s \in Sockets :
    /\ wsLog # <<>>
    /\ LastOf(wsLog) = [op |-> "ping", socket |-> s, jobId |-> 0]
    /\ pongs[s] = 1
    /\ socketRooms[s] # {}
    /\ connectedClients # {s}
    /\ \E j \in JobIds : jobState[j] = "active"

(***************************************************************************)
(* Events pushed by the queue.                                             *)
(***************************************************************************)
\* The checkpoints of one invocation, in the order IndustryProcessor reports
\* them, and the places at which an invocation can have stopped.
AllCheckpoints == <<10, 20, 30, 50, 70, 85, 90>>

ReportsAt(pc) ==
  CASE pc = "query" -> {3}
    [] pc = "save" -> {6}
    [] OTHER -> {3, 4, 6, 7}

\* The progress events caused by invocation n of job j.
ProgressBy(j, n) == SelectSeq(events[j], LAMBDA e : e.kind = "job-progress" /\ e.by = n)

Position(j, n) ==
  IF \E r \in running[j] : r.n = n
    THEN (CHOOSE r \in running[j] : r.n = n).pc
    ELSE "settled"

CountOf(seq, kind) == Cardinality({i \in DOMAIN seq : seq[i].kind = kind})

\* Every report has its one event: the events of an invocation are the
\* checkpoints it has passed, each once, with the reported percent and message.
EveryReportOneEvent ==
  \A j \in JobIds : \A n \in 1..invoked[j] :
    /\ Len(ProgressBy(j, n)) \in ReportsAt(Position(j, n))
    /\ \A i \in DOMAIN ProgressBy(j, n) :
         /\ ProgressBy(j, n)[i].progress = AllCheckpoints[i]
         /\ ProgressBy(j, n)[i].message = CheckpointMessage(AllCheckpoints[i])

\* A step that completes or fails a job adds exactly one event of the kind.
TerminalStepOneEvent ==
  \A j \in JobIds :
    /\ (jobState[j] # "completed" /\ jobState'[j] = "completed")
         => /\ CountOf(events'[j], "job-complete") = CountOf(events[j], "job-complete") + 1
            /\ CountOf(events'[j], "job-error") = CountOf(events[j], "job-error")
            /\ LastOf(events'[j]).kind = "job-complete"
            /\ LastOf(events'[j]).result = returnvalue'[j].data
    /\ (jobState[j] # "failed" /\ jobState'[j] = "failed")
         => /\ CountOf(events'[j], "job-error") = CountOf(events[j], "job-error") + 1
            /\ CountOf(events'[j], "job-complete") = CountOf(events[j], "job-complete")
            /\ LastOf(events'[j]).kind = "job-error"
            /\ LastOf(events'[j]).error = failedReason'[j]

\* C16: with the notification service attached, every progress report of an
\* attempt causes exactly one progress event with the reported percent and
\* message, and every transition of a job to completed or to failed causes
\* exactly one event of the corresponding kind.
C16_OneEventPerReportAndTerminalTransition ==
  []EveryReportOneEvent /\ [][TerminalStepOneEvent]_vars

\* A job completed by an invocation all of whose seven reports were pushed.
C16_Witness ==
  \E j \in JobIds :
    /\ webSocketService
    /\ jobState[j] = "completed"
    /\ Len(ProgressBy(j, invoked[j])) = 7
    /\ CountOf(events[j], "job-complete") = 1

\* C18: getJobStatus gives the snapshot of every job the queue holds, in
\* whatever state, also between attempts; it gives the not-found signal only
\* for an id never submitted or a job that was removed.
C18_StatusForEveryHeldJob ==
  \A j \in JobIds :
    /\ stored[j]
         => /\ getJobStatus(j) # NotFound
            /\ getJobStatus(j).data = jobData[j]
            /\ getJobStatus(j).progress = jobProgress[j]
            /\ getJobStatus(j).result = returnvalue[j]
            /\ getJobStatus(j).failedReason = failedReason[j]
    /\ getJobStatus(j) = NotFound => (jobState[j] = "none" \/ ~stored[j])

(***************************************************************************)
(* POST /populate-:type-async. A body field is absent ("undefined"), blank *)
(* or filled; the type is whatever the path carries.                       *)
(***************************************************************************)
\* Names every object inherits from Object.prototype.
InheritedKeys == {"toString"}

\* type in JOB_TYPE_CONFIGS: true of the object's own keys and of the keys it
\* inherits.
isValidJobType(type) == type \in DOMAIN JOB_TYPE_CONFIGS \cup InheritedKeys

RequestTypes == JobType \cup {"unknown"} \cup InheritedKeys

FieldInputs == {"undefined", "  ", "Acme"}

\* useDeepResearch || false
RequestFlags == BOOLEAN

Requests ==
  [type : RequestTypes, companyName : FieldInputs, companyDescription : FieldInputs,
   entityId : FieldInputs, profileId : FieldInputs, useDeepResearch : RequestFlags]

\* !field?.trim()
blank(field) == field = "undefined" \/ field = "  "

BadRequest(message) == [status |-> 400, error |-> TRUE, message |-> message]

\* next(error): the error middleware answers with err.status || 500.
ServerError(message) == [status |-> 500, error |-> TRUE, message |-> message]

Queued == [status |-> 200, error |-> FALSE, message |-> "analysis started"]

\* The handler is suspended on await jobQueue.addJob(jobData).
Pending == [status |-> 0, error |-> FALSE, message |-> "pending"]

\* uuidv4(): an id no job has.
FreshJobIds == {j \in JobIds : jobState[j] = "none" /\ \A i \in JobIds : i < j => jobState[i] # "none"}

\* jobQueue.addJob(jobData) as the handler awaits it: for a type without an
\* own entry, config has no timeout and reading config.timeout.regular throws
\* before queue.add.
populateAsync(req) ==
  /\ response # Pending
  /\ handled < MaxRequests
  /\ handled' = handled + 1
  /\ request' = req
  /\ IF ~isValidJobType(req.type)
       THEN /\ response' = BadRequest("Invalid job type")
            /\ addJobCalled' = FALSE
            /\ submitted' = 0
            /\ UNCHANGED queueVars
     ELSE IF \/ blank(req.companyName) \/ blank(req.companyDescription)
             \/ blank(req.entityId) \/ blank(req.profileId)
       THEN /\ response' = BadRequest("Company name, description, entity ID, and profile ID are required")
            /\ addJobCalled' = FALSE
            /\ submitted' = 0
            /\ UNCHANGED queueVars
     ELSE /\ addJobCalled' = TRUE
          /\ IF req.type \in DOMAIN JOB_TYPE_CONFIGS
               THEN /\ \E j \in FreshJobIds :
                         /\ queueAdd(j, req.type, req.useDeepResearch)
                         /\ submitted' = j
                    /\ response' = Pending
               ELSE /\ response' = ServerError("Cannot read properties of undefined")
                    /\ submitted' = 0
                    /\ UNCHANGED queueVars
  /\ UNCHANGED nonRouteVars

\* An addJob that resolves only when the job has finished.
addJobResolved_whenFinished(j) == jobState[j] \in {"completed", "failed"}

\* The promise of addJob resolves when queue.add has stored the job.
addJobResolved(j) == jobState[j] # "none"

\* The handler's continuation after await jobQueue.addJob: res.json(...).
respond ==
  /\ response = Pending
  /\ addJobResolved(submitted)
  /\ response' = Queued
  /\ UNCHANGED <<request, addJobCalled, submitted, handled>>
  /\ UNCHANGED queueVars
  /\ UNCHANGED nonRouteVars

RouteNext ==
  \/ \E req \in Requests : populateAsync(req)
  \/ respond
  \/ \E j \in JobIds : processJob(j)

RouteSpec == Init /\ [][RouteNext]_vars

\* The event loop runs the continuation of a resolved await; nothing is
\* assumed of the worker or of the processors.
RouteFairSpec == RouteSpec /\ WF_vars(respond)

\* The request is one the route must refuse: its type is not a job type, or
\* a required field is missing or blank.
Malformed(req) ==
  \/ req.type \notin JobType
  \/ blank(req.companyName) \/ blank(req.companyDescription)
  \/ blank(req.entityId) \/ blank(req.profileId)

\* C17: a submission with an unknown type or a missing or blank required
\* field gets an error response, addJob is not called for it, and the jobs
\* held by the queue are unchanged.
C17_MalformedSubmissionRejected ==
  [][(routeVars' # routeVars /\ Malformed(request'))
       => /\ response'.error
          /\ ~addJobCalled'
          /\ jobState' = jobState
          /\ stored' = stored]_vars

\* C22: submission does not wait on execution. Once the job is enqueued the
\* handler answers, also when no worker ever claims the job and when the
\* processor never returns; the job need not have been touched by then.
C22_SubmissionNeverWaitsOnExecution == (response = Pending) ~> (response = Queued)

\* The response was given for a job no worker has claimed yet.
C22_Witness ==
  /\ response = Queued
  /\ submitted \in JobIds
  /\ jobState[submitted] = "waiting"
  /\ invoked[submitted] = 0

\* C23: the timeout option of a submitted job is the deepResearch tier of its
\* type's configuration exactly when useDeepResearch is set and the regular
\* tier otherwise, and for every job type the deepResearch tier is at least
\* as long as the regular tier.
C23_TimeoutTierFollowsFlag ==
  /\ \A j \in JobIds :
       jobState[j] # "none" =>
         /\ jobData[j].useDeepResearch
              => jobData[j].timeout = JOB_TYPE_CONFIGS[jobData[j].type].timeout.deepResearch
         /\ ~jobData[j].useDeepResearch
              => jobData[j].timeout = JOB_TYPE_CONFIGS[jobData[j].type].timeout.regular
  /\ \A t \in JobType :
       JOB_TYPE_CONFIGS[t].timeout.deepResearch >= JOB_TYPE_CONFIGS[t].timeout.regular

\* A job submitted through the route with useDeepResearch set.
C23_Witness ==
  \E j \in JobIds :
    /\ submitted = j
    /\ request.useDeepResearch
    /\ jobData[j].useDeepResearch
    /\ jobData[j].type = "regulations"
    /\ jobData[j].timeout > JOB_TYPE_CONFIGS["regulations"].timeout.regular

(***************************************************************************)
(* JobQueue.getJobStatus as it runs: the job is looked up in the four      *)
(* lists, and its state is read by a later request to the store, with the  *)
(* queue free to move the job in between.                                  *)
(***************************************************************************)
\* job.getState(): the list the job is in now, "stuck" when it is in none.
getState(j) ==
  IF stored[j] /\ jobState[j] \in StatusLists \cup {"delayed"}
    THEN jobState[j]
    ELSE "stuck"

\* await this.queue.getJobs([...]); jobs.find(...); null when not found.
statusLookup(j) ==
  /\ statusPc # "found"
  /\ IF stored[j] /\ jobState[j] \in StatusLists
       THEN /\ statusPc' = "found"
            /\ statusJob' = j
            /\ statusValue' = ""
       ELSE /\ statusPc' = "returned"
            /\ statusJob' = 0
            /\ statusValue' = "not-found"
  /\ UNCHANGED nonStatusVars

\* const state = await job.getState(); return { status: state, ... }
statusRead ==
  /\ statusPc = "found"
  /\ statusPc' = "returned"
  /\ statusValue' = getState(statusJob)
  /\ UNCHANGED statusJob
  /\ UNCHANGED nonStatusVars

StatusNext ==
  \/ Next
  \/ \E j \in JobIds : statusLookup(j)
  \/ statusRead

StatusSpec == Init /\ [][StatusNext]_vars

\* C24: the status a getJobStatus call returns is one of waiting, active,
\* completed, failed, also when the job changes state between the lookup of
\* the job and the read of its state.
C24_ReturnedStatusIsOneOfFour ==
  (statusPc = "returned" /\ statusValue # "not-found") => statusValue \in StatusLists

\* The step is taken by an invocation of job j that the queue timeout has
\* abandoned: it is in flight and is not the one the worker awaits.
AbandonedActs(j) ==
  \E r \in running[j] : r \notin running'[j] /\ r.n # currentInv[j]

\* C25: what an attempt abandoned by the queue timeout does later is not
\* observed: its progress reports neither change the stored progress of the
\* job nor push a progress event.
C25_AbandonedAttemptUnobserved ==
  [][\A j \in JobIds :
       AbandonedActs(j)
         => /\ jobProgress'[j] = jobProgress[j]
            /\ CountOf(events'[j], "job-progress") = CountOf(events[j], "job-progress")]_vars

(***************************************************************************)
(* The five strategies (IndustryProcessor, CompetitorsProcessor,           *)
(* SupplyChainProcessor, EndMarketsProcessor, RegulationsProcessor): one   *)
(* invocation of process on a provider text, with the parser and the save  *)
(* calls it makes. The field lists of the strategies are mapped on the     *)
(* names of the generated documents; a document may hold keys a strategy   *)
(* does not expect.                                                        *)
(***************************************************************************)
ExpectedFieldsOf(type) ==
  CASE type = "competitors" -> <<FieldNames[1]>>
    [] type = "regulations" -> <<FieldNames[2], FieldNames[3]>>
    [] OTHER -> <<FieldNames[1], FieldNames[2], FieldNames[3]>>

\* progressSteps of JOB_TYPE_CONFIGS: the target percentages of each type.
progressSteps(type) ==
  CASE type = "industry" -> {10, 25, 40, 55, 70, 85, 100}
    [] type = "competitors" -> {10, 25, 50, 70, 90, 100}
    [] type = "supplychain" -> {10, 25, 40, 60, 75, 90, 100}
    [] type = "endmarkets" -> {10, 25, 40, 60, 75, 90, 100}
    [] type = "regulations" -> {10, 25, 45, 65, 80, 90, 100}

\* The save methods the exported supabaseService object has.
supabaseServiceMethods ==
  {"saveIndustryOverview", "saveIndustryCompetitors", "saveIndustryCompetitor",
   "saveIndustrySupplyChain", "saveIndustryEndMarkets", "saveIndustryRegulations"}

\* The save calls of a strategy, in order, each with the fields of the
\* record it hands over.
SaveCalls(type) ==
  CASE type = "industry" ->
         <<[op |-> "saveIndustryOverview", fields |-> ExpectedFieldsOf(type)]>>
    [] type = "competitors" ->
         <<[op |-> "saveIndustryCompetitors", fields |-> ExpectedFieldsOf(type)]>>
    [] type = "supplychain" ->
         <<[op |-> "saveIndustrySupplyChain", fields |-> ExpectedFieldsOf(type)]>>
    [] type = "endmarkets" ->
         <<[op |-> "saveIndustryEndMarkets", fields |-> ExpectedFieldsOf(type)]>>
    [] type = "regulations" ->
         <<[op |-> "saveIndustryRegulations", fields |-> <<FieldNames[2]>>],
           [op |-> "saveIndustryMARegulations", fields |-> <<FieldNames[3]>>]>>

\* What parsedData.field || default falls back to: the industry name falls
\* back to the company's market, the lists of the regulations to [], the
\* rest to null.
DefaultOf(type, name) ==
  IF type = "industry" /\ name = FieldNames[1] THEN <<Quote, "M", Quote>>
  ELSE IF type = "regulations" THEN <<"[", "]">>
  ELSE <<"n", "u", "l", "l">>

\* The record built from the parsed mapping for one save call.
RecordOf(type, names, mapping) ==
  [name \in Range(names) |->
     IF name \in DOMAIN mapping THEN mapping[name] ELSE DefaultOf(type, name)]

isArray(val) == Len(val) > 0 /\ val[1] = "["

\* if (!parsedData) throw; CompetitorsProcessor also throws when
\* parsedData.competitors is missing.
parseCheckFails(type, p) ==
  \/ p.null
  \/ type = "competitors" /\ FieldNames[1] \notin DOMAIN p.fields

\* parsedData.competitors.map(...) throws on a value that is not an array.
structuringThrows(type, p) ==
  type = "competitors" /\ ~isArray(p.fields[FieldNames[1]])

MapNotAFunctionMsg == "parsedData.competitors.map is not a function"

\* The lists of citations query can return: source URLs, as strings.
CitationLists == UNION {[1..n -> {"url"}] : n \in 0..MaxCitations}

\* The save calls whose record has a column that carries the citations
\* (overview_data, competitor_data, supplychain_data, endmarkets_data,
\* regulation_data).
CitationCarrying ==
  {"saveIndustryOverview", "saveIndustryCompetitors", "saveIndustrySupplyChain",
   "saveIndustryEndMarkets", "saveIndustryRegulations"}

\* citations.length > 0 ? {..., citations: citations} : null
citationColumn(op, citationList) ==
  IF op \in CitationCarrying /\ Len(citationList) > 0
    THEN [null |-> FALSE, citations |-> citationList]
    ELSE [null |-> TRUE, citations |-> <<>>]

\* A record whose fields are filled only when citations came with the answer.
saveCall_needsCitations(type, call, mapping, citationList) ==
  [op |-> call.op,
   record |-> RecordOf(type, call.fields, IF Len(citationList) > 0 THEN mapping ELSE <<>>),
   citationData |-> citationColumn(call.op, citationList)]

\* The call of method op with the record: a method the object lacks throws
\* a TypeError at the call, one it has is invoked.
saveCall(type, call, mapping, citationList) ==
  [op |-> call.op,
   record |-> RecordOf(type, call.fields, mapping),
   citationData |-> citationColumn(call.op, citationList)]

StrategyInit ==
  /\ QueueInit /\ StoreInit /\ WsInit /\ RouteInit /\ StatusInit /\ CleanIdle
  /\ \E n \in 0..MaxKeys : fields \in [1..n -> FieldValues]
  /\ cut \in 1..Len(Document(fields))
  /\ wrapper = "none"
  /\ text = Response(fields, cut, wrapper)
  /\ data = NotQueried
  /\ parsed = Null
  /\ parserPc = "input"
  /\ sType \in JobType
  /\ sPc = "start"
  /\ reported = <<>>
  /\ sParsed = Null
  /\ persisted = <<>>
  /\ sError = ""
  /\ citations \in CitationLists

\* process up to await perplexityClient.query.
processStart ==
  /\ sPc = "start"
  /\ reported' = reported \o CheckpointsBeforeQuery
  /\ sPc' = "query"
  /\ UNCHANGED <<sType, citations, sParsed, persisted, sError>>
  /\ UNCHANGED nonStrategyVars

\* The query rejects: the catch block rethrows.
processQueryThrows ==
  /\ sPc = "query"
  /\ sPc' = "rejected"
  /\ \E msg \in QueryErrors : sError' = msg
  /\ UNCHANGED <<sType, citations, reported, sParsed, persisted>>
  /\ UNCHANGED nonStrategyVars

\* The continuation of process once p is what the parser returned.
afterParse(p) ==
  /\ sParsed' = p
  /\ IF parseCheckFails(sType, p)
       THEN /\ reported' = reported \o CheckpointAfterQuery
            /\ sPc' = "rejected"
            /\ sError' = ParseFailedMsg
            /\ UNCHANGED persisted
     ELSE IF structuringThrows(sType, p)
       THEN /\ reported' = reported \o SubSeq(CheckpointsBeforeSave, 1, 2)
            /\ sPc' = "rejected"
            /\ sError' = MapNotAFunctionMsg
            /\ UNCHANGED persisted
     ELSE /\ reported' = reported \o CheckpointsBeforeSave
          /\ IF SaveCalls(sType)[1].op \in supabaseServiceMethods
               THEN /\ persisted' = <<saveCall(sType, SaveCalls(sType)[1], p.fields, citations)>>
                    /\ sPc' = "save"
                    /\ UNCHANGED sError
               ELSE /\ sPc' = "rejected"
                    /\ sError' = NotAFunctionMsg
                    /\ UNCHANGED persisted

\* The query returns: the text is parsed, checked, structured and handed
\* to the first save call.
processAfterQuery ==
  /\ sPc = "query"
  /\ queryData(text) # QueryThrew
  /\ afterParse(parseData(queryData(text), ExpectedFieldsOf(sType)))
  /\ UNCHANGED <<sType, citations>>
  /\ UNCHANGED nonStrategyVars

\* A save call rejects: the catch block rethrows.
processSaveThrows ==
  /\ sPc = "save"
  /\ sPc' = "rejected"
  /\ \E msg \in SaveErrors : sError' = msg
  /\ UNCHANGED <<sType, citations, reported, sParsed, persisted>>
  /\ UNCHANGED nonStrategyVars

\* A save call returns: the next save call is made, or 90 is reported and
\* process resolves.
processAfterSave ==
  /\ sPc = "save"
  /\ IF Len(persisted) < Len(SaveCalls(sType))
       THEN IF SaveCalls(sType)[Len(persisted) + 1].op \in supabaseServiceMethods
              THEN /\ persisted' = Append(persisted,
                                     saveCall(sType, SaveCalls(sType)[Len(persisted) + 1],
                                              sParsed.fields, citations))
                   /\ UNCHANGED <<sPc, sError, reported>>
              ELSE /\ sPc' = "rejected"
                   /\ sError' = NotAFunctionMsg
                   /\ UNCHANGED <<persisted, reported>>
       ELSE /\ reported' = reported \o CheckpointAfterSave
            /\ sPc' = "resolved"
            /\ UNCHANGED <<persisted, sError>>
  /\ UNCHANGED <<sType, citations, sParsed>>
  /\ UNCHANGED nonStrategyVars

StrategyNext ==
  \/ processStart
  \/ processQueryThrows
  \/ processAfterQuery
  \/ processSaveThrows
  \/ processAfterSave

StrategySpec == StrategyInit /\ [][StrategyNext]_vars

\* The text is a complete object none of whose keys the strategy expects:
\* the object {} or one holding only other keys.
YieldsNoExpectedField ==
  /\ cut = Len(Document(fields))
  /\ \A k \in 1..Len(fields) : FieldNames[k] \notin Range(ExpectedFieldsOf(sType))

\* C26: when the provider text yields none of the expected fields of the job
\* type, the strategy rejects the attempt and makes no save call.
C26_NoFieldsRejectsAndWritesNothing ==
  (YieldsNoExpectedField /\ sPc \notin {"start", "query"})
    => (sPc = "rejected" /\ persisted = <<>>)

\* The invocation has gone past the parse without an error of the provider
\* or of the store.
PastParse ==
  /\ sPc \notin {"start", "query"}
  /\ sError \notin QueryErrors \cup SaveErrors

\* The record an industry job is to persist when the first two fields were
\* recovered and the third was not.
FirstTwoAndDefault ==
  (FieldNames[1] :> fields[1]) @@ (FieldNames[2] :> fields[2])
    @@ (FieldNames[3] :> DefaultOf("industry", FieldNames[3]))

\* C27: for an industry job whose provider text is cut after expected
\* fields A and B and part-way through C, the attempt is not rejected and
\* the record handed to the store holds the values of A and B and the
\* default for C.
C27_TruncatedIndustryPersistsRecovered ==
  (sType = "industry" /\ Len(fields) = 3 /\ CutInsideField(2) /\ PastParse)
    => /\ sPc \in {"save", "resolved"}
       /\ Len(persisted) = 1
       /\ persisted[1].op = "saveIndustryOverview"
       /\ persisted[1].record = FirstTwoAndDefault

\* The text is the complete document, it holds every field the strategy
\* expects, and the list CompetitorsProcessor maps over is an array.
CompleteWithAllExpected ==
  /\ cut = Len(Document(fields))
  /\ Range(ExpectedFieldsOf(sType)) \subseteq {FieldNames[k] : k \in 1..Len(fields)}
  /\ sType = "competitors" => isArray(fields[1])

\* The invocation has settled, and neither the provider nor the store
\* reported an error.
SettledWithoutCollaboratorError ==
  /\ sPc \in {"resolved", "rejected"}
  /\ sError \notin QueryErrors \cup SaveErrors

\* C28: for each of the five job types, on a complete document with all
\* expected fields and with every call of the store succeeding, the strategy
\* resolves; and no strategy calls a save method that supabaseService does
\* not have.
C28_CompleteDocumentResolves ==
  /\ (CompleteWithAllExpected /\ SettledWithoutCollaboratorError) => sPc = "resolved"
  /\ sError # NotAFunctionMsg

\* C29: every percentage a strategy passes to its progress callback is one
\* of the targets in progressSteps of its job type's configuration.
C29_ReportsAreConfiguredSteps ==
  sType \in JobType =>
    \A i \in DOMAIN reported : reported[i] \in progressSteps(sType)

NonDecreasing(seq) == \A i, k \in DOMAIN seq : i < k => seq[i] <= seq[k]

\* C30: within one invocation of a strategy the percentages passed to the
\* progress callback never decrease from call to call, and an invocation
\* that has rejected reports nothing further.
C30_ReportsNonDecreasing ==
  []NonDecreasing(reported) /\ [][sPc = "rejected" => reported' = reported]_vars

\* An end markets invocation that resolved after its seven reports.
C30_Witness ==
  /\ sType = "endmarkets"
  /\ sPc = "resolved"
  /\ Len(reported) = 7

(***************************************************************************)
(* The boundary of the document inside the response text.                  *)
(***************************************************************************)
\* The response is a complete document followed by more text.
FollowedByText == wrapper \in Followers /\ cut = Len(Document(fields))

\* C31: the document is the text from the first opening brace to its
\* matching closing brace: text that follows that brace, a further brace or
\* a second object, does not change the mapping the parser returns.
C31_TextAfterMatchingBraceIgnored ==
  (parserPc = "done" /\ FollowedByText)
    => parsed = parseResponseWithTruncationHandling(Document(fields), expectedFields(fields))

(***************************************************************************)
(* Numeric literals written with underscores, through query and the        *)
(* parser.                                                                 *)
(***************************************************************************)
\* A numeric literal with an underscore between its digits.
Underscored == <<"1", "_", "2">>

ClientInit ==
  /\ QueueInit /\ StoreInit /\ WsInit /\ RouteInit /\ StatusInit /\ CleanIdle
  /\ StrategyIdle
  /\ \E n \in 1..MaxFields : fields \in [1..n -> FieldValues \cup {Underscored}]
  /\ cut \in 1..Len(Document(fields))
  /\ wrapper \in Wrappers
  /\ text = Response(fields, cut, wrapper)
  /\ data = NotQueried
  /\ parsed = Null
  /\ parserPc = "input"

\* await perplexityClient.query(prompt, ...), from the content of the answer on.
query ==
  /\ parserPc = "input"
  /\ data' = queryData(text)
  /\ parserPc' = IF queryData(text) = QueryThrew THEN "threw" ELSE "queried"
  /\ UNCHANGED <<fields, cut, wrapper, text, parsed>>
  /\ UNCHANGED nonParserVars

\* perplexityClient.parseResponseWithTruncationHandling(searchResult, expectedFields)
parseSearchResult ==
  /\ parserPc = "queried"
  /\ parsed' = parseData(data, expectedFields(fields))
  /\ parserPc' = "done"
  /\ UNCHANGED <<fields, cut, wrapper, text, data>>
  /\ UNCHANGED nonParserVars

ClientNext == query \/ parseSearchResult

ClientSpec == ClientInit /\ [][ClientNext]_vars

\* C32: a numeric literal of the text is turned into a number with the
\* underscores between its digits removed, on the full parse and in the
\* recovery of single fields alike: a field written 1_2 is returned as 12.
C32_UnderscoresRemovedFromNumerals ==
  (parserPc = "done" /\ ~parsed.null)
    => \A k \in DOMAIN fields :
         (fields[k] = Underscored /\ FieldNames[k] \in DOMAIN parsed.fields)
           => parsed.fields[FieldNames[k]] = <<"1", "2">>

(***************************************************************************)
(* Trailing commas.                                                        *)
(***************************************************************************)
\* The response is a complete document written with trailing commas.
WrittenWithTrailingCommas == wrapper = "trailingCommas" /\ cut = Len(Document(fields))

IsStringValue(value) == value[1] = Quote

\* C33: for a complete document written with trailing commas the parser
\* returns the mapping it returns for the document without them, and every
\* string value is returned as it is written.
C33_TrailingCommasOnlyRemoved ==
  (parserPc = "done" /\ WrittenWithTrailingCommas)
    => /\ parsed = parseResponseWithTruncationHandling(Document(fields),
                                                        expectedFields(fields))
       /\ ~parsed.null
       /\ \A k \in DOMAIN fields :
            IsStringValue(fields[k])
              => /\ FieldNames[k] \in DOMAIN parsed.fields
                 /\ parsed.fields[FieldNames[k]] = fields[k]

(***************************************************************************)
(* Recovery of single fields.                                              *)
(***************************************************************************)
\* The text the parser hands to JSON.parse once both boundaries are found.
cleanedJson(content) ==
  removeTrailingCommas(
    SubSeq(content, indexOf(content, <<"{">>),
           countingScan(content, indexOf(content, <<"{">>), 0, "{", "}")),
    1, {"}", "]"})

\* The parser went to extractCompleteSubObjects: in the truncation branch,
\* or in the catch block after JSON.parse threw.
FallbackTaken(searchResult) ==
  \/ TruncationDetected(searchResult)
  \/ /\ indexOf(cleanedContent(searchResult), <<"{">>) # 0
     /\ countingScan(cleanedContent(searchResult),
                     indexOf(cleanedContent(searchResult), <<"{">>), 0, "{", "}") # 0
     /\ ~JSONparse(cleanedJson(cleanedContent(searchResult))).ok

\* C34: in the recovery of single fields every key of the returned mapping
\* is an expected field, a field whose top-level member is whole in the text
\* is returned with that member's value, and a field whose top-level member
\* has not begun in the text is not returned: a member of the same name
\* nested in another field is never taken for it.
C34_FallbackTakesTopLevelMembers ==
  (parserPc = "done" /\ FallbackTaken(text) /\ ~parsed.null)
    => /\ DOMAIN parsed.fields \subseteq Range(expectedFields(fields))
       /\ \A k \in DOMAIN fields :
            FieldNames[k] \in DOMAIN parsed.fields
              => /\ cut >= FieldEnd(fields, k)
                      => parsed.fields[FieldNames[k]] = fields[k]
                 /\ cut >= FieldStart(fields, k)

(***************************************************************************)
(* The registry of processors.                                             *)
(***************************************************************************)
\* getProcessor throws when the map has no processor for the type.
getProcessorThrows(type) == type \notin processors

\* C35: for the type of every submission the route has looked at,
\* isValidJobType holds exactly when hasProcessor holds, and getProcessor
\* throws exactly when hasProcessor is false.
C35_RegistryMatchesValidTypes ==
  request # NoRequest
    => /\ isValidJobType(request.type) <=> hasProcessor(request.type)
       /\ getProcessorThrows(request.type) <=> ~hasProcessor(request.type)

(***************************************************************************)
(* Citations and the outcome of an invocation.                             *)
(***************************************************************************)
\* What the parser returns to the strategy for the provider text.
ParsedOfText == parseData(queryData(text), ExpectedFieldsOf(sType))

\* A save call without its citation-carrying column.
OtherColumns(call) == [op |-> call.op, record |-> call.record]

\* The i-th save call of the strategy as the provider text determines it.
CallOfText(i) ==
  [op |-> SaveCalls(sType)[i].op,
   record |-> RecordOf(sType, SaveCalls(sType)[i].fields, ParsedOfText.fields)]

\* The reports made by an invocation that is at pc, or has rejected with error.
ReportedBy(pc, error) ==
  CASE pc = "start" -> <<>>
    [] pc = "query" \/ error \in QueryErrors -> CheckpointsBeforeQuery
    [] pc # "query" /\ error = ParseFailedMsg ->
         CheckpointsBeforeQuery \o CheckpointAfterQuery
    [] pc # "query" /\ error = MapNotAFunctionMsg ->
         CheckpointsBeforeQuery \o SubSeq(CheckpointsBeforeSave, 1, 2)
    [] pc = "resolved" ->
         CheckpointsBeforeQuery \o CheckpointsBeforeSave \o CheckpointAfterSave
    [] OTHER -> CheckpointsBeforeQuery \o CheckpointsBeforeSave

\* C36: whatever citations come with the provider text, the outcome of the
\* invocation, its reports and every column of the records it persists other
\* than the citation-carrying one are those the text and the errors of the
\* collaborators determine.
C36_CitationsDoNotInfluenceOutcome ==
  sPc # "idle" =>
    /\ \A i \in DOMAIN persisted : OtherColumns(persisted[i]) = CallOfText(i)
    /\ reported = ReportedBy(sPc, sError)
    /\ PastParse =>
         /\ sError = ParseFailedMsg <=> parseCheckFails(sType, ParsedOfText)
         /\ sError = MapNotAFunctionMsg
              <=> (~parseCheckFails(sType, ParsedOfText)
                     /\ structuringThrows(sType, ParsedOfText))
    /\ sPc = "resolved" => Len(persisted) = Len(SaveCalls(sType))

\* An invocation that resolved and persisted a record with its citations.
C36_Witness ==
  /\ sPc = "resolved"
  /\ citations # <<>>
  /\ ~persisted[1].citationData.null

\* An invocation that resolved without citations: the column is null.
C36_WitnessNoCitations ==
  /\ sPc = "resolved"
  /\ citations = <<>>
  /\ persisted[1].citationData.null

(***************************************************************************)
(* Terminal events.                                                        *)
(***************************************************************************)
TerminalEvents == {"job-complete", "job-error"}

\* C37: a terminal event of a job id is the last event sent for it: there is
\* at most one, and no event of any kind follows it.
C37_TerminalEventIsLast ==
  \A j \in JobIds :
    \A i \in DOMAIN events[j] :
      events[j][i].kind \in TerminalEvents => i = Len(events[j])

C38_WitnessFailed ==
  \E j \in JobIds : jobState[j] = "failed" /\ getJobStatus(j).status = "failed"

(***************************************************************************)
(* cleanOldJobs: this.queue.clean(3600000). The queue cleans the jobs of   *)
(* one list that are older than the grace period; without a second         *)
(* argument the list is the completed one.                                 *)
(***************************************************************************)
\* The list clean works on when it is called with the grace period only.
cleanType == "completed"

\* More than the grace period goes by: every job in the store is now older
\* than one hour.
hourPasses ==
  /\ \E j \in JobIds : stored[j] /\ ~old[j]
  /\ old' = [j \in JobIds |-> old[j] \/ stored[j]]
  /\ UNCHANGED <<cleans, queueVars, nonCleanVars>>

\* await this.queue.clean(3600000)
cleanOldJobs ==
  /\ cleans < MaxCleans
  /\ cleans' = cleans + 1
  /\ stored' = [j \in JobIds |->
                  stored[j] /\ ~(jobState[j] = cleanType /\ old[j])]
  /\ UNCHANGED <<jobState, jobData, attemptsMade, jobProgress, returnvalue,
                 failedReason, running, currentInv, invoked, attemptLog, events,
                 timeouts>>
  /\ UNCHANGED <<old, nonCleanVars>>

CleanNext == Next \/ hourPasses \/ cleanOldJobs

CleanSpec == Init /\ [][CleanNext]_vars

\* C39: a call of cleanOldJobs removes from the store exactly the completed
\* and the failed jobs that are older than one hour: no younger job and no
\* queued or active job is removed.
C39_CleanRemovesOldTerminalJobs ==
  [][cleans' # cleans
       => \A j \in JobIds :
            stored'[j] <=> (stored[j] /\ ~(old[j] /\ jobState[j] \in {"completed", "failed"}))]_vars

(***************************************************************************)
(* The channel a submission returns and the rooms of the notifications:    *)
(* submissions are accepted and answered while sockets connect and         *)
(* subscribe and updates are emitted for job ids.                          *)
(***************************************************************************)
\* websocketChannel of the response: the template literal job:${jobId}.
websocketChannel_bareId(jobId) == <<jobId>>

websocketChannel(jobId) == <<"job", ":", jobId>>

\* Submissions the route accepts.
AcceptedRequests ==
  {req \in Requests :
     /\ req.type \in SubmittedTypes
     /\ ~blank(req.companyName) /\ ~blank(req.companyDescription)
     /\ ~blank(req.entityId) /\ ~blank(req.profileId)}

ChannelNext ==
  \/ \E req \in AcceptedRequests : populateAsync(req)
  \/ respond
  \/ \E s \in Sockets : connection(s)
  \/ \E s \in Sockets, jobId \in RoomIds : subscribeJob(s, jobId)
  \/ \E kind \in EmitKinds, jobId \in RoomIds : sendJob(kind, jobId)

ChannelSpec == Init /\ [][ChannelNext]_vars

\* The number of the emission at entry e of the history.
EmissionNumber(e) == Cardinality({k \in 1..e : IsEmission(k)})

\* Every subscribe-job of socket s was for jobId.
SubscribedOnlyTo(s, jobId) ==
  \A k \in DOMAIN wsLog :
    (wsLog[k].op = "subscribe-job" /\ wsLog[k].socket = s) => wsLog[k].jobId = jobId

\* C40: the channel a submission returns is the key of the room its job's
\* updates are emitted to: a socket that subscribed with the returned job id
\* is sent every update emitted for that job while it is subscribed, and a
\* socket that subscribed with nothing else is sent no update of another job.
C40_ReturnedChannelIsTheRoom ==
  response = Queued =>
    /\ websocketChannel(submitted) = roomKey(submitted)
    /\ \A s \in Sockets :
         /\ websocketChannel(submitted) \in socketRooms[s] <=> s \in room(submitted)
         /\ \A e \in DOMAIN wsLog :
              (IsEmission(e) /\ wsLog[e].jobId = submitted /\ SubscribedAt(s, submitted, e))
                => Received(s, EmissionNumber(e))
         /\ SubscribedOnlyTo(s, submitted)
              => \A k \in DOMAIN inbox[s] : inbox[s][k].jobId = submitted

\* A socket subscribed with the returned job id; an update of that job was
\* emitted and sent to it, and an update of another job was emitted and not
\* sent to it.
C40_Witness ==
  /\ response = Queued
  /\ \E s \in Sockets : \E e1, e2 \in DOMAIN wsLog :
       /\ SubscribedOnlyTo(s, submitted)
       /\ IsEmission(e1) /\ wsLog[e1].jobId = submitted
       /\ Received(s, EmissionNumber(e1))
       /\ IsEmission(e2) /\ wsLog[e2].jobId # submitted
       /\ ~Received(s, EmissionNumber(e2))

====
